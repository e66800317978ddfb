------------------------ MODULE MCCoordinationStore ------------------------
EXTENDS CoordinationStore, TLC

CONSTANTS n1, n2, d1, d2, d3, domain, context, topic, question, other, answer, q1, r1

MCNameOf == d1 :> n1 @@ d2 :> n2 @@ d3 :> n2
MCDomainsOf == d1 :> {domain} @@ d2 :> {domain} @@ d3 :> {}
MCDomainOf == context :> domain

MCSeed == [definitions |-> {d1}, messages |-> << >>, acknowledgements |-> {}]

Ask(text) ==
  [ requestId |-> q1, authorId |-> n1, recipientId |-> n2, kind |-> "REQUEST",
    topic |-> topic, text |-> text, context |-> context, replyTo |-> None ]

Result ==
  [ requestId |-> r1, authorId |-> n2, recipientId |-> n1, kind |-> "RESULT",
    topic |-> topic, text |-> answer, context |-> context, replyTo |-> 1 ]

\* Two definitions of one participant, two requests under one identifier, a
\* reply and a receipt.
MCClientCommands ==
  [operation : {"register"}, participant : {d2, d3}]
    \cup [operation : {"post"}, message : {Ask(question), Ask(other), Result}]
    \cup { [operation |-> "acknowledge", messageId |-> 1, participantId |-> n2] }

Symmetry == Permutations(Tasks)
=============================================================================
