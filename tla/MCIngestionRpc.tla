--------------------------- MODULE MCIngestionRpc ---------------------------
EXTENDS IngestionRpc

FiveLogs == [block : 0..LastBlock, index : {0}] \cup {[block |-> LastBlock, index |-> 1]}
Weights == [n \in Names |-> CASE n = "robinhood_public" -> 0 [] n = "alchemy_free" -> 1 [] OTHER -> -1]
Order == <<"robinhood_public", "archive_node", "alchemy_free">>
Rows == [n \in Names |-> IF n = "robinhood_public" THEN 2 ELSE 1]
Caps == [n \in Names |-> IF n = "robinhood_public" THEN 4 ELSE 1]
Calls == [n \in Names |-> 1]
Quota == [n \in Names |-> 3]
=============================================================================
