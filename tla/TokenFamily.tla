----------------------------- MODULE TokenFamily -----------------------------
(***************************************************************************)
(* What refresh token rotation promises of one family (ADR 0007 and        *)
(* docs/diagrams/05-auth-token-rotation.md): of the tokens a login leads   *)
(* to, one at a time is current; it is replaced by a token never used      *)
(* before, or the family ends with it; what was replaced never comes back. *)
(***************************************************************************)

CONSTANTS
  Tokens,  \* refresh tokens
  NoToken  \* none of them

VARIABLES
  current,  \* the token that can be exchanged, or NoToken
  spent     \* the tokens that were current before

family == <<current, spent>>

Init == current = NoToken /\ spent = {}

\* A login opens the family, once.
Open ==
  /\ current = NoToken /\ spent = {}
  /\ current' \in Tokens
  /\ UNCHANGED spent

Replace ==
  /\ current # NoToken
  /\ current' \in Tokens \ (spent \cup {current})
  /\ spent' = spent \cup {current}

End ==
  /\ current # NoToken
  /\ current' = NoToken
  /\ spent' = spent \cup {current}

Next == Open \/ Replace \/ End

Spec == Init /\ [][Next]_family
=============================================================================
