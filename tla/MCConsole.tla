---------------------------------- MODULE MCConsole ----------------------------------
(***************************************************************************)
(* An instance of Console for TLC: users, tables and forms.                  *)
(***************************************************************************)
EXTENDS Console, TLC

MCRoleOf == [u \in {"ann", "root"} |-> IF u = "ann" THEN "user" ELSE "superadmin"]

\* Channel "A" has a voiced model with a field the page does not know;
\* there is no other channel at first.
MCUpstream == [c \in Channels |-> IF c = "A" THEN {"m"} ELSE {"n"}]
MCFirstRows ==
  [c \in Channels |->
     IF c = "A"
     THEN [conf |-> 1, key |-> "k1", mapping |-> {},
           models |-> [m \in {"m"} |-> [extra |-> TRUE, tts |-> TRUE,
                         voices |-> <<[voice |-> "x", info |-> "i", trial |-> "u"]>>]]]
     ELSE [conf |-> 0, key |-> "none", mapping |-> {}, models |-> <<>>]]
Alias(a, b) == [from |-> a, to |-> b]
MCForms == {[conf |-> 2, key |-> "", mapping |-> <<>>],
          [conf |-> 1, key |-> "k2", mapping |-> <<Alias("a", "t")>>],
          [conf |-> 1, key |-> "", mapping |-> <<Alias("a", "t"), Alias("a", "u")>>]}
MCTexts == {<<[is |-> "comment", text |-> ""], [is |-> "section", text |-> "x"], [is |-> "trial", text |-> "u"],
            [is |-> "info", text |-> "i"]>>,
          <<[is |-> "info", text |-> "i"]>>}

MCModelsOfKey == [k \in ChatKeys \cup {NoKey} |-> {"m"}]

\* A model charged per request, and a form that leaves two of its prices out.
MCPriceModels == {"m"}
MCFirstPrices == {[id |-> 1, model |-> "m", unit |-> "request", price |-> 1]}
MCPriceForms == {[u \in {"input_token", "output_token", "cache_read_token", "cache_write_token",
                       "extra_context_token", "request", "audio_second", "character"} |->
                  IF u \in {"cache_read_token", "cache_write_token", "extra_context_token"}
                  THEN -1 ELSE 2]}

\* Both groups have the channel, one has a rule, none has a price.
MCFirstHas ==
  [rules |-> [g \in Groups |-> IF g = "g1" THEN {"r1"} ELSE {}],
   groupChannels |-> [g \in Groups |-> {"c1"}],
   groupPrices |-> [g \in Groups |-> {}]]
=============================================================================
