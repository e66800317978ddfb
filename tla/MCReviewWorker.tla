--------------------------- MODULE MCReviewWorker ---------------------------
EXTENDS ReviewWorker, TLC

CONSTANTS client, reviewer, dc, dr, domain, context, topic, other, question, seen1, seen2, q1, q2, q3

MCNameOf == dc :> client @@ dr :> reviewer
MCDomainsOf == dc :> {domain} @@ dr :> {domain}
MCDomainOf == context :> domain

MCSeed == [definitions |-> {dc}, messages |-> << >>, acknowledgements |-> {}]

ToReviewer(q, kind, about, c) ==
  [ requestId |-> q, authorId |-> client, recipientId |-> reviewer, kind |-> kind,
    topic |-> about, text |-> question, context |-> c, replyTo |-> None ]

Posts(messages) == [operation : {"post"}, message : messages]

\* A request, a message both workers skip, and a handoff.
MCMessages ==
  { ToReviewer(q1, "REQUEST", topic, None),
    ToReviewer(q2, "REQUEST", other, context),
    ToReviewer(q3, "HANDOFF", topic, None) }

\* Two messages, both served.
MCServed == { m \in MCMessages : m.topic = topic }
MCServedCommands == Posts(MCServed)

MCRequestIds == {q1, q2, q3} \cup ({reviewer} \X MessageNumbers)

Symmetry == Permutations(Workers) \cup Permutations(Observations)
=============================================================================
