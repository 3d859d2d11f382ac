--------------------------- MODULE MCMiddlewares ---------------------------
EXTENDS Middlewares

Plain(type) == [type |-> type]
Maintenance == [type |-> "GatewayInMaintenance", status |-> "503"]
Redirect(path) == [type |-> "Redirect", path |-> path]
Filter(strategy, values) ==
    [type |-> "SpamFilter", strategy |-> strategy, values |-> values]

MCGlobalLists ==
    { <<Plain("AccessLogging"), Plain("ContentEncoding")>>,
      <<Filter("EndsWith", {"php"}), Plain("CorrelationId")>> }

MCOwnLists ==
    { <<>>,
      <<Plain("ForwardHeaders"), Plain("ContentEncoding")>>,
      <<Redirect("/old"), Filter("ContainsString", {"wp", "php"})>>,
      <<Filter("Method", {"TRACE"}), Filter("ContainsString", {"wp"}), Maintenance>>,
      <<Plain("GatewayStatsCollector"), Plain("unknown"), Redirect("")>> }

Client(accepted, path, method, pathnameEnds, pathEnds, pathContains) ==
    [accepts |-> accepted, correlated |-> FALSE, path |-> path, method |-> method,
     pathnameEnds |-> pathnameEnds, pathEnds |-> pathEnds, pathContains |-> pathContains]

\* The third one's path has a query, "/wp/index.php?x".
MCClients ==
    { Client({"gzip", "br"}, "/new", "GET", {}, {}, {}),
      Client({"deflate"}, "/old", "TRACE", {}, {}, {}),
      Client({}, "/query", "GET", {"php"}, {}, {"wp", "php"}) }
=============================================================================
