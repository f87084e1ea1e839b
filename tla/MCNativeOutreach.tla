------------------------- MODULE MCNativeOutreach -------------------------
(* The replies of the instances. *)
EXTENDS NativeOutreach

Reply(intents, asked_for) == [intents |-> intents, asked_for |-> asked_for]

MCReplies ==
  {Reply({"unsubscribe", "positive_interest"}, "none"), Reply({"objection"}, "none"),
   Reply({"objection"}, "due"), Reply({}, "none")}
=============================================================================
