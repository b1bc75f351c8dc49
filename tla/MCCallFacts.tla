------------------------------ MODULE MCCallFacts ------------------------------
(* Instances of CallFacts for TLC.  An interval has two ticks. *)
EXTENDS CallFacts

Row(reference, agent, start, queue, inbound, response, handled) ==
  [reference |-> reference, id |-> Blank, agent |-> agent, start |-> start, clearing |-> Blank,
   queue |-> queue, language |-> "nl", inbound |-> inbound, response |-> response,
   handled |-> handled]

(* One call that waits, is answered and transferred; another that is abandoned. *)
Waiting == Row(1, NoAgent, 1, "sales", TRUE, 1, 0)
Answer == Row(1, "ann", 1, "sales", TRUE, 1, 2)
Longer == Row(1, "ann", 1, "sales", TRUE, 1, 5)
Cleared == [Answer EXCEPT !.clearing = 1]
Transfer == Row(1, "bob", 2, "care", TRUE, 0, 3)
Abandon == Row(2, NoAgent, 3, "sales", TRUE, 2, 0)
NoClock == Row(2, NoAgent, 3, "sales", TRUE, Unknown, 0)
Outbound == Row(3, "ann", 3, "sales", FALSE, Unknown, 4)
Elsewhere == Row(4, "zoe", 3, "other", TRUE, 1, 1)
Unmapped == Row(5, "ann", 3, "other", TRUE, 1, 1)
NoStart == Row(6, "ann", Unknown, "sales", TRUE, 1, 1)
Nameless == Row(Blank, NoAgent, 2, "sales", TRUE, 2, 0)
ById == [Nameless EXCEPT !.id = 7, !.queue = "care"]
French == [ById EXCEPT !.id = 8, !.language = "fr"]
TransferAtOnce == Row(1, "bob", 1, "care", TRUE, 0, 3)

EveryExport ==
  {<<Waiting, Abandon>>, <<Answer, TransferAtOnce>>, <<Transfer, Longer, NoClock>>,
   <<Outbound, Nameless, Nameless>>, <<Elsewhere, Unmapped, NoStart>>, <<Abandon, Answer>>,
   <<Cleared, ById, French, Nameless>>}
================================================================================
