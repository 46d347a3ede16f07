---------------------------- MODULE MCMailPages -----------------------------
(* Model-checking instance of the three modules about the mail page.  A     *)
(* behaviour is one of the operations behind an undo window (MailDesk), of   *)
(* the list with its pages and its selection (ListView) or of the cache      *)
(* (MailCache); part says of which, and the variables of the others rest in  *)
(* an initial state.                                                         *)
EXTENDS MailDesk, ListView, TLC

CONSTANTS
    CacheMails,     \* the mails of the cached views
    MaxOps, MaxRemote

VARIABLES
    part,
    \* MailCache
    srv, list, badge, fetch, counts, ops, conn, events, timer, missed, open,
    gate, made, remote

cacheVars == <<srv, list, badge, fetch, counts, ops, conn, events, timer, missed,
               open, gate, made, remote>>
pageVars == <<part, vars, listVars, cacheVars>>

Cache == INSTANCE MailCache WITH Mails <- CacheMails

ASSUME CacheAssumption == Cache!Assumptions

DeskRests == home = [m \in Mails |-> "inbox"] /\ view = "inbox"
\* The words of a search are interchangeable.
Symmetry == Permutations(Words)

ListRests == match = {} /\ viewed = "inbox"
CacheRests == srv = [m \in CacheMails |-> "gone"]

PagesInit ==
    /\ Init /\ ListInit /\ Cache!Init
    /\ \/ part = "desk" /\ ListRests /\ CacheRests
       \/ part = "list" /\ DeskRests /\ CacheRests
       \/ part = "cache" /\ DeskRests /\ ListRests

DeskStep == part = "desk" /\ Next /\ UNCHANGED <<part, listVars, cacheVars>>
ListStep == part = "list" /\ ListNext /\ UNCHANGED <<part, vars, cacheVars>>
CacheStep == part = "cache" /\ Cache!Next /\ UNCHANGED <<part, vars, listVars>>

PagesNext == DeskStep \/ ListStep \/ CacheStep

PagesSpec == PagesInit /\ [][PagesNext]_pageVars

----------------------------------------------------------------------------
(* The properties are those of the modules.                                 *)

\* Types, and what the code takes for granted about its own state.
TypesOK == TypeOK /\ ListTypeOK /\ Cache!TypeOK

\* When nothing is under way, list and badges are those of the server.
QuietIsFresh == Cache!QuietIsFresh
=============================================================================
