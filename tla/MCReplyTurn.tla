----------------------------- MODULE MCReplyTurn -----------------------------
(* Up to four models, one of them listed twice and one not registered for    *)
(* strict schemas; every status alone and the combinations of phrases whose  *)
(* order in _classify_error matters.                                         *)
EXTENDS ReplyTurn
Lists == INSTANCE SequencesExt

CONSTANTS m1, m2, m3, m4

MCConfigurations == {<<m1, m1, m2>>, <<m3, m1, m2, m4>>}
MCStrictModel == {m1, m2, m4}

Failed(status, text) == [status |-> status, text |-> text]

MCFailures ==
  {Failed(s, {}) : s \in {"400", "401", "404", "429", "503", "none"}}
  \cup {Failed("400", t) : t \in {{"schema"}, {"bad_json"}, {"schema", "bad_json"},
                                 {"schema", "model"}}}
  \cup {Failed("401", {"model"})}
  \cup {Failed("other", t) : t \in {{"auth", "rate"}, {"rate", "timeout"}}}
  \cup {Failed("none", t) : t \in {{"timeout"}, {"server", "timeout"},
                                  {"bad_json", "bad_request"}, {"schema", "bad_request"}}}

\* _models_to_try as the loop it is: keep a model unless it was kept before, then cut.
models_of_loop(list) ==
  LET keep(kept, m) == IF Lists!Contains(kept, m) THEN kept ELSE Append(kept, m)
      ordered_unique == Lists!FoldLeft(keep, <<>>, list)
  IN  SubSeq(ordered_unique, 1,
             IF Len(ordered_unique) > MaxModels THEN MaxModels ELSE Len(ordered_unique))

\* On every list of up to five models the loop returns what first_models says.
ASSUME LoopAssumption ==
  \A n \in 1..5 : \A list \in [1..n -> {m1, m2, m3, m4}] : first_models(list) = models_of_loop(list)

MCStartStatus == {"new", "active", "replied", "engaged", "meeting_scheduled", "needs_review"}
=============================================================================
