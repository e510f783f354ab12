------------------------------ MODULE MCSourcing ------------------------------
\* A page of the lead, a page elsewhere with the same text, and a bill's text: the
\* first two cite each other, and another job has met their text under one of them.
EXTENDS Sourcing
MCPages == {"page", "mirror", "text", "tweet"}
MCBodies == {"report", "bill", "post", "stub"}
MCBody == [p \in MCPages |-> CASE p \in {"page", "mirror"} -> "report"
                               [] p = "text" -> "bill"
                               [] p = "tweet" -> "post"]
MCCites == [b \in MCBodies |-> IF b = "stub" THEN {} ELSE {"page", "mirror", "tweet"}]
MCEarlier == {[url |-> "mirror", text |-> "read", body |-> "report"]}
===============================================================================
