------------------------------ MODULE MailIds -------------------------------
(* The mails of the client, as the modules about the mail page see them.    *)
EXTENDS Integers, FiniteSets

CONSTANTS
    Mails,          \* ids; a list shows them in increasing order
    None            \* no mail, no operation

ASSUME MailsAssumption ==
    Mails \subseteq Nat /\ IsFiniteSet(Mails) /\ None \notin Mails
=============================================================================
