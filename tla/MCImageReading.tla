--------------------------- MODULE MCImageReading ---------------------------
(* Instances of ImageReading for TLC. *)
EXTENDS ImageReading, TLC

CONSTANTS p1, p2

Good == [form |-> "object", keys |-> "api", bank |-> "text", amount |-> "number", id |-> "text",
         time |-> "text", currency |-> "text", confidence |-> "number"]

\* Every form, and every value of every field next to good ones, by either keys.
Written ==
    LET one == {[Good EXCEPT !.form = v] : v \in Forms}
               \cup {[Good EXCEPT !.bank = v, !.time = v] : v \in TextValues}
               \cup {[Good EXCEPT !.id = v] : v \in TextValues}
               \cup {[Good EXCEPT !.currency = v] : v \in TextValues}
               \cup {[Good EXCEPT !.amount = v] : v \in AmountValues}
               \cup {[Good EXCEPT !.confidence = v] : v \in ConfidenceValues}
    IN one \cup {[t EXCEPT !.keys = "training"] : t \in one}

\* Any text about one photo, while a good one is written about the other.
TextsOfTwo == {[p \in Photos |-> IF p = p1 THEN t ELSE Good] : t \in Written}
=============================================================================
