-------------------------- MODULE MCMessageProcessor --------------------------
(* The instance of MessageProcessor for TLC: the two topics of the program,  *)
(* one of them with a second handler and a message that no handler knows.    *)
EXTENDS MessageProcessor

TheTopics == {"delete-romances", "delete-romances-group"}

TheHandlers ==
  [t \in TheTopics |-> IF t = "delete-romances" THEN {"requests"} ELSE {"groups", "audit"}]

TheMessages == {"request", "group", "unknown"}

TheTopicOf ==
  [m \in TheMessages |-> IF m = "request" THEN "delete-romances" ELSE "delete-romances-group"]

TheUnderstood == {<<"requests", "request">>, <<"groups", "group">>, <<"audit", "group">>}

=============================================================================
