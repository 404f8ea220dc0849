--------------------------- MODULE MCExpertAnswer ---------------------------
EXTENDS ExpertAnswer, AnswerParts
CONSTANTS s1, s2, a, b, c, d, p, q, r, read, x, y
MCOffer == [s \in {s1, s2} |->
  IF s = s1 THEN <<<<x, read>>, <<y>>>> ELSE <<<<x, y>>, <<x>>>>]
MCRefused == {<<s2, 2>>}
MCAllows == {{read, x, y}, {x}}
MCBindings ==
  {<<[server |-> s1, on |-> TRUE, allow |-> {read, x, y}],
     [server |-> s2, on |-> TRUE, allow |-> {x, y}]>>,
   <<[server |-> s1, on |-> TRUE, allow |-> {x, y}]>>, <<>>}
MCHttp == <<read, y>>
(* Agents gather their tools, one from two servers or two from one; deep   *)
(* research or an agent meets a public chat at the embedder, or three      *)
(* chats meet there, all without tools.                                    *)
Way(t) == CASE t = d -> "deep" [] t \in {p, q, r} -> "chat" [] OTHER -> "agent"
Only(ts) == [t \in {a, b, c, d, p, q, r} |-> IF t \in ts THEN Way(t) ELSE "none"]
MCWays == {Only({a}), Only({a, b}), Only({c, p}), Only({d, p}),
           Only({p, q, r})}
MCLimit == [t \in {a, b, c, d, p, q, r} |-> CASE t = c -> 2 [] t = d -> 1 [] OTHER -> 0]
Asked(t) == req[t].way # "none"
MCInit ==
  /\ AnswerInit
  /\ Len(binding) = (IF Asked(p) THEN 0 ELSE IF Asked(b) THEN 1 ELSE 2)
  /\ changes = (IF Asked(p) THEN 0 ELSE 1)
  /\ Asked(p) <=> \A s \in {s1, s2} : row[s].life = "gone"
MCSpec == MCInit /\ [][AnswerNext]_answerVars /\ Fairness
=============================================================================
