------------------------------- MODULE MCShareTarget -------------------------------
(* Bytes of two bits: every target of either format and every hash, then   *)
(* every combination of fields that are missing, unusable or unusual.      *)
EXTENDS ShareTarget

MCDefaultTarget == <<1, 0>>

Blob(nonce) == [whole |-> TRUE, nonce |-> nonce]
ShortBlob == [whole |-> FALSE, nonce |-> 0]

Object(id, blob, target, algo, seed) ==
  [form |-> "object", job_id |-> id, blob |-> blob, target |-> target, algo |-> algo, seed_hash |-> seed]
Notify(id, blob, target, algo, seed) ==
  [form |-> "notify", params |-> <<id, blob, target, algo, Missing, seed>>]
Template(blob, template, difficulty, seed) ==
  [form |-> "template", blob |-> blob, template |-> template, difficulty |-> difficulty, seed_hash |-> seed]

EveryTarget == {Object("a", Blob(0), t, "rx/0", "k") : t \in Targets}
EveryDifficulty == {Template(Blob(0), "t", d, "k") : d \in 0 .. Max64}
EveryField ==
  UNION {{Object(id, blob, target, algo, seed), Notify(id, blob, target, algo, seed)} :
           id \in {Missing, "a"},
           blob \in {Missing, NotHex, ShortBlob, Blob(1)},
           target \in {Missing, NotHex, <<0>>, <<2, 1>>},
           algo \in {Missing, "rx/0", "randomx", "randomx/0", "rx/wow"},
           seed \in {Missing, NotHex, "", "k"}}
Truncated == {[form |-> "notify", params |-> SubSeq(<<"a", Blob(1), <<2, 1>>, "rx/0", Missing>>, 1, n)] : n \in 0 .. 5}
BadTemplates == {Template(blob, template, 1, seed) :
                   blob \in {NotHex, Blob(1)}, template \in {NotHex, "t"}, seed \in {Missing, NotHex, "", "k"}}

MCMessages == EveryTarget \cup EveryDifficulty \cup EveryField \cup Truncated \cup BadTemplates
=============================================================================
