----------------------------- MODULE MCProcess ------------------------------
(* Process on a small instance.                                            *)
EXTENDS Process

\* What a deployment gives in one piece: nothing, the secrets of production, an
\* HTTP upstream with credentials, credentials for a gRPC upstream, and for the
\* other one together with the secrets.
Pieces ==
  {{}, Secret, {"partner", "partner.auth", "partner.token"},
   {"application.auth", "application.token"},
   Secret \cup {"authorizer.auth", "authorizer.token"}}

\* Besides, it turns at most two switches.
MCTurnings ==
  {(piece \ T) \cup (T \ piece) :
     piece \in Pieces, T \in {{}} \cup {{a, b} : a, b \in Switch}}

=============================================================================
