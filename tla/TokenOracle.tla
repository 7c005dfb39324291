---------------------------- MODULE TokenOracle ----------------------------
(***************************************************************************)
(* What a caller of PortalWSClient.getTokenData may rely on, with nothing  *)
(* of how the answer is found: an answer is something the portal has said  *)
(* about the credential the token stands for, and a call fails only when   *)
(* the portal could not be understood during that very call.               *)
(***************************************************************************)
CONSTANTS Threads, Tokens, Credentials, Bearer, TokenData, Failures, NoToken,
          Nothing   \* the step taken gave nobody an answer

VARIABLES asking,    \* asking[th]: the token th's call is about, or NoToken
          told,      \* told[c]: everything the portal has said about c
          troubled,  \* the threads whose current call met an unusable answer
          answer     \* the answer the last step gave, and to whom

vars == <<asking, told, troubled, answer>>

Init == /\ asking = [th \in Threads |-> NoToken]
        /\ told = [c \in Credentials |-> {}]
        /\ troubled = {}
        /\ answer = Nothing

\* A caller hands over a token.
Ask(th, t) == /\ asking[th] = NoToken
              /\ asking' = [asking EXCEPT ![th] = t]
              /\ answer' = Nothing
              /\ UNCHANGED <<told, troubled>>

\* The portal says d about credential c.
Learn(c, d) == /\ told' = [told EXCEPT ![c] = @ \union {d}]
               /\ answer' = Nothing
               /\ UNCHANGED <<asking, troubled>>

\* The portal's answer to th's call is lost or cannot be understood.
Trouble(th) == /\ asking[th] # NoToken
               /\ troubled' = troubled \union {th}
               /\ answer' = Nothing
               /\ UNCHANGED <<asking, told>>

\* The call returns something the portal said about its credential.
Answer(th) == /\ asking[th] # NoToken
              /\ \E d \in told[Bearer[asking[th]]] :
                    answer' = [thread |-> th, is |-> d]
              /\ asking' = [asking EXCEPT ![th] = NoToken]
              /\ troubled' = troubled \ {th}
              /\ UNCHANGED told

\* The call returns an error of the client's own, or throws.
Fail(th) == /\ asking[th] # NoToken
            /\ th \in troubled
            /\ \E f \in Failures : answer' = [thread |-> th, is |-> f]
            /\ asking' = [asking EXCEPT ![th] = NoToken]
            /\ troubled' = troubled \ {th}
            /\ UNCHANGED told

\* The answer has been taken.
Settle == answer' = Nothing /\ UNCHANGED <<asking, told, troubled>>

Next == \/ \E th \in Threads : \/ \E t \in Tokens : Ask(th, t)
                               \/ Trouble(th)
                               \/ Answer(th)
                               \/ Fail(th)
        \/ \E c \in Credentials, d \in TokenData : Learn(c, d)
        \/ Settle

Spec == Init /\ [][Next]_vars
=============================================================================
