---------------------------- MODULE AdminEditors ----------------------------
(***************************************************************************)
(* The pages of mail2im's two administration front ends (React and Vue)    *)
(* that list the records of one kind and edit them in a dialog: mail types *)
(* and classification rules, mail accounts, notification channels, proxies *)
(* and message templates.                                                  *)
(*                                                                         *)
(* They are one program written thirteen times: a list fetched from the    *)
(* server, a form opened empty or on a row, a save, a delete that asks     *)
(* first.  What differs is in the records of Pages: which buttons wait for *)
(* a request, whether the form is filled from the row or from the server,  *)
(* where the row to delete is kept, and whether an older list may still    *)
(* arrive.  A record is abstracted to its content, a number.               *)
(***************************************************************************)
EXTENDS Naturals, FiniteSets, TLC

CONSTANTS
  Records,      \* identifiers of rows, positive numbers
  MaxContent,   \* the contents a record can have are 1..MaxContent; 0 is an empty form
  MaxNet,       \* requests in flight at the same time (bound)
  MaxClicks     \* forms opened, rows deleted or switched, refreshes (bound)

\* What the model takes for granted of its constants.
Assumptions ==
  /\ Records \subseteq Nat \ {0}
  /\ MaxContent \in Nat \ {0} /\ MaxNet \in Nat \ {0} /\ MaxClicks \in Nat

Contents == 0..MaxContent      \* of a row: 0 means that the server has no such row
NoRecord == 0                  \* the identifier of a record that is not stored yet
NetSlots == 1..MaxNet

-----------------------------------------------------------------------------
(* What the dialogs let the user do: waits = the save button is disabled   *)
(* while a save is in flight.  Cancel and Escape are never disabled.       *)

MailTypeDialog        == [waits |-> TRUE]
FolderRuleDialog      == [waits |-> TRUE]
ContentRuleDialog     == [waits |-> TRUE]
AccountDialog         == [waits |-> TRUE]
ChannelDialog         == [waits |-> TRUE]
ProxyDialog           == [waits |-> TRUE]
TemplateEditorDialog  == [waits |-> TRUE]
VueMailTypeDialog     == [waits |-> FALSE]
VueFolderRuleDialog   == [waits |-> FALSE]
VueAccountDialog      == [waits |-> TRUE]
VueChannelDialog      == [waits |-> TRUE]
VueProxyDialog        == [waits |-> FALSE]
VueTemplateDialog     == [waits |-> FALSE]

(* What the handlers do: filled = when an empty form is refused before     *)
(* anything is sent; load = where openEdit takes the form from; keyed =    *)
(* what makes a save an update; clears = a success also empties the form.  *)

Handlers(filled, load) == [filled |-> filled, load |-> load, keyed |-> "edit and id", clears |-> FALSE]

MailTypeHandlers      == Handlers("always", "row")
FolderRuleHandlers    == Handlers("always", "row")
ContentRuleHandlers   == Handlers("always", "row")
AccountHandlers       == Handlers("new", "server")
ChannelHandlers       == Handlers("always", "row")
ProxyHandlers         == Handlers("always", "row")
TemplateHandlers      == Handlers("always", "row")
VueMailTypeHandlers   == Handlers("never", "row")
VueFolderRuleHandlers == Handlers("never", "row")
VueAccountHandlers    == Handlers("new", "server")
VueChannelHandlers    == Handlers("always", "row")
VueProxyHandlers      == [Handlers("always", "row") EXCEPT !.keyed = "id", !.clears = TRUE]
VueTemplateHandlers   == Handlers("never", "row")

(* What the tables let the user do: asks = where the row to delete is kept *)
(* while the user is asked; once = the answer cannot be given again while  *)
(* a deletion is in flight; switch = rows can be enabled in the table.     *)

Table(asks, once) == [asks |-> asks, once |-> once, switch |-> FALSE]

MailTypeTable         == Table("target", TRUE)
FolderRuleTable       == Table("target", TRUE)
ContentRuleTable      == Table("target", TRUE)
AccountTable          == [Table("target", FALSE) EXCEPT !.switch = TRUE]
ChannelTable          == Table("target", TRUE)
ProxyTable            == Table("target", TRUE)
TemplateTable         == Table("target", TRUE)
VueMailTypeTable      == Table("confirm()", FALSE)
VueFolderRuleTable    == Table("confirm()", FALSE)
VueAccountTable       == [Table("form", FALSE) EXCEPT !.switch = TRUE]
VueChannelTable       == Table("confirm()", FALSE)
VueProxyTable         == Table("form", FALSE)
VueTemplateTable      == Table("confirm()", FALSE)

(* How the list is fetched: latest = the answer of an older request is     *)
(* dropped (a query of TanStack Query), otherwise the last answer wins.    *)

ReactList == [latest |-> TRUE]
VueList   == [latest |-> FALSE]

Pages ==
  {MailTypeDialog       @@ MailTypeHandlers      @@ MailTypeTable      @@ ReactList,
   FolderRuleDialog     @@ FolderRuleHandlers    @@ FolderRuleTable    @@ ReactList,
   ContentRuleDialog    @@ ContentRuleHandlers   @@ ContentRuleTable   @@ ReactList,
   AccountDialog        @@ AccountHandlers       @@ AccountTable       @@ ReactList,
   ChannelDialog        @@ ChannelHandlers       @@ ChannelTable       @@ ReactList,
   ProxyDialog          @@ ProxyHandlers         @@ ProxyTable         @@ ReactList,
   TemplateEditorDialog @@ TemplateHandlers      @@ TemplateTable      @@ ReactList,
   VueMailTypeDialog    @@ VueMailTypeHandlers   @@ VueMailTypeTable   @@ VueList,
   VueFolderRuleDialog  @@ VueFolderRuleHandlers @@ VueFolderRuleTable @@ VueList,
   VueAccountDialog     @@ VueAccountHandlers    @@ VueAccountTable    @@ VueList,
   VueChannelDialog     @@ VueChannelHandlers    @@ VueChannelTable    @@ VueList,
   VueProxyDialog       @@ VueProxyHandlers      @@ VueProxyTable      @@ VueList,
   VueTemplateDialog    @@ VueTemplateHandlers   @@ VueTemplateTable   @@ VueList}

-----------------------------------------------------------------------------
VARIABLES
  page,      \* the page the user is on; pages that behave alike are one value
  rows,      \* the server: content of each record
  listed,    \* the list on the page: content of each record
  form,      \* the dialog: open, edit (isEdit), id, content
  saving,    \* isSaving, saving
  asked,     \* the confirmation of a deletion: open, id
  deleting,  \* deleteMutation.isPending
  net,       \* the requests in flight, by slot
  clicks,    \* clicks counted against MaxClicks
  meant,     \* history: the record the user last chose to edit (NoRecord: a new one) and to delete
  missed     \* history: an error hid a change of the server from the page

vars == <<page, rows, listed, form, saving, asked, deleting, net, clicks, meant, missed>>

Methods == {"GET list", "GET row", "POST", "PUT", "DELETE", "PUT row"}
Phases  == {"sent", "done", "refused", "lost"}
Idle == [method |-> "idle"]
Requests == [method : Methods, id : Records \cup {NoRecord}, content : Contents,
             meant : Records \cup {NoRecord}, phase : Phases, list : [Records -> Contents]]

NoList == [i \in Records |-> 0]
Request(m, i, c, who) ==
  [method |-> m, id |-> i, content |-> c, meant |-> who, phase |-> "sent", list |-> NoList]

\* The page shows no dialog over its table.
TableReachable == ~form.open /\ ~asked.open
Free == {s \in NetSlots : net[s] = Idle}
ClosedForm == [open |-> FALSE, edit |-> FALSE, id |-> NoRecord, content |-> 0]

TypeOK ==
  /\ page \in Pages
  /\ rows \in [Records -> Contents]
  /\ listed \in [Records -> Contents]
  /\ form \in [open : BOOLEAN, edit : BOOLEAN, id : Records \cup {NoRecord}, content : Contents]
  /\ saving \in BOOLEAN /\ deleting \in BOOLEAN /\ missed \in BOOLEAN
  /\ asked \in [open : BOOLEAN, id : Records \cup {NoRecord}]
  /\ net \in [NetSlots -> Requests \cup {Idle}]
  /\ clicks \in 0..MaxClicks
  /\ meant \in [edit : Records \cup {NoRecord}, delete : Records \cup {NoRecord}]

Init ==
  /\ page \in Pages
  /\ rows = [i \in Records |-> 1]
  /\ listed = rows
  /\ form = ClosedForm
  /\ saving = FALSE /\ deleting = FALSE /\ missed = FALSE
  /\ asked = [open |-> FALSE, id |-> NoRecord]
  /\ net = [s \in NetSlots |-> Idle]
  /\ clicks = 0
  /\ meant = [edit |-> NoRecord, delete |-> NoRecord]

-----------------------------------------------------------------------------
Click == clicks < MaxClicks /\ clicks' = clicks + 1

Sent(s, r) == net' = [net EXCEPT ![s] = r]

\* The requests after the list is asked for again in slot s: a query forgets
\* the older request for the list, a plain fetch leaves it in flight.
Refetched(s) ==
  [t \in NetSlots |-> IF t = s THEN Request("GET list", NoRecord, 0, NoRecord)
                   ELSE IF page.latest /\ net[t].method = "GET list" THEN Idle
                   ELSE net[t]]

\* The mistake of keeping the record that was edited before.
CreateFormKept == [form EXCEPT !.open = TRUE, !.content = 0]

CreateForm == [open |-> TRUE, edit |-> FALSE, id |-> NoRecord, content |-> 0]

OpenCreate ==
  /\ TableReachable /\ Click
  /\ form' = CreateForm
  /\ meant' = [meant EXCEPT !.edit = NoRecord]
  /\ UNCHANGED <<page, rows, listed, saving, asked, deleting, net, missed>>

\* openEdit: the form is copied from the row, or isEdit is set and the record
\* is asked for; the dialog opens when it has arrived.
OpenEdit(i) ==
  /\ TableReachable /\ Click
  /\ listed[i] > 0
  /\ meant' = [meant EXCEPT !.edit = i]
  /\ IF page.load = "row"
       THEN /\ form' = [open |-> TRUE, edit |-> TRUE, id |-> i, content |-> listed[i]]
            /\ UNCHANGED net
       ELSE /\ form' = [form EXCEPT !.edit = TRUE]
            /\ \E s \in Free : Sent(s, Request("GET row", i, 0, i))
  /\ UNCHANGED <<page, rows, listed, saving, asked, deleting, missed>>

Type(c) ==
  /\ form.open /\ c # form.content
  /\ form' = [form EXCEPT !.content = c]
  /\ UNCHANGED <<page, rows, listed, saving, asked, deleting, net, clicks,
                 meant, missed>>

CloseForm ==
  /\ form.open
  /\ form' = [form EXCEPT !.open = FALSE]
  /\ UNCHANGED <<page, rows, listed, saving, asked, deleting, net, clicks,
                 meant, missed>>

IsUpdate == form.id # NoRecord /\ (page.keyed = "edit and id" => form.edit)

\* The form has what the handler asks for before it sends anything.
Filled ==
  \/ form.content > 0
  \/ page.filled = "never"
  \/ page.filled = "new" /\ form.edit

SaveEnabled == form.open /\ ~(page.waits /\ saving)

Save ==
  /\ SaveEnabled /\ Filled
  /\ \E s \in Free :
       Sent(s, Request(IF IsUpdate THEN "PUT" ELSE "POST", form.id, form.content, meant.edit))
  /\ saving' = TRUE
  /\ UNCHANGED <<page, rows, listed, form, asked, deleting, clicks, meant, missed>>

\* The switch of a row sends the whole listed row back.
Toggle(i) ==
  /\ page.switch /\ TableReachable /\ Click
  /\ listed[i] > 0
  /\ \E s \in Free : Sent(s, Request("PUT row", i, listed[i], i))
  /\ UNCHANGED <<page, rows, listed, form, saving, asked, deleting, meant, missed>>

\* The delete button of a row.  confirm() holds the page until it is answered.
AskDelete(i) ==
  /\ TableReachable /\ Click
  /\ listed[i] > 0
  /\ meant' = [meant EXCEPT !.delete = i]
  /\ \/ /\ page.asks = "confirm()"
        /\ \E s \in Free : Sent(s, Request("DELETE", i, 0, i))
        /\ UNCHANGED <<form, asked>>
     \/ /\ page.asks = "target"
        /\ asked' = [open |-> TRUE, id |-> i]
        /\ UNCHANGED <<form, net>>
     \/ /\ page.asks = "form"
        /\ asked' = [open |-> TRUE, id |-> NoRecord]
        /\ form' = [form EXCEPT !.id = i]
        /\ UNCHANGED net
  /\ UNCHANGED <<page, rows, listed, saving, deleting, missed>>

RefuseDelete ==
  /\ asked.open
  /\ asked' = [open |-> FALSE, id |-> NoRecord]
  /\ UNCHANGED <<page, rows, listed, form, saving, deleting, net, clicks, meant,
                 missed>>

\* The dialogs of React close with the click, those of Vue with the success.
ConfirmDelete ==
  /\ asked.open /\ ~(page.once /\ deleting)
  /\ \E s \in Free :
       Sent(s, Request("DELETE", IF page.asks = "form" THEN form.id ELSE asked.id, 0, meant.delete))
  /\ asked' = IF page.asks = "form" THEN asked ELSE [open |-> FALSE, id |-> NoRecord]
  /\ deleting' = TRUE
  /\ UNCHANGED <<page, rows, listed, form, saving, clicks, meant, missed>>

\* The refresh button, disabled while the list is loading.
Refresh ==
  /\ TableReachable /\ Click
  /\ \A s \in NetSlots : net[s].method # "GET list"
  /\ \E s \in Free : net' = Refetched(s)
  /\ UNCHANGED <<page, rows, listed, form, saving, asked, deleting, meant, missed>>

-----------------------------------------------------------------------------
(* The server, and the ways a request can end: done, refused (nothing was  *)
(* changed) or lost (changed, but the page sees an error).                 *)

Applied(r) ==
  CASE r.method = "POST" -> 
      {[rows EXCEPT ![i] = IF r.content = 0 THEN 1 ELSE r.content] : i \in {j \in Records : rows[j] = 0}}
    [] r.method \in {"PUT", "PUT row"} ->
         IF r.id \in Records /\ rows[r.id] > 0
           THEN {[rows EXCEPT ![r.id] = IF r.content = 0 THEN rows[r.id] ELSE r.content]} ELSE {}
    [] r.method = "DELETE" -> IF r.id \in Records THEN {[rows EXCEPT ![r.id] = 0]} ELSE {}
    [] OTHER -> {rows}

Serve(s) ==
  /\ net[s] # Idle /\ net[s].phase = "sent"
  /\ \/ /\ rows' \in Applied(net[s])
        /\ \E ph \in IF net[s].method \in {"GET list", "GET row"} THEN {"done"} ELSE {"done", "lost"} :
             net' = [net EXCEPT ![s].phase = ph,
                                ![s].list = IF net[s].method = "GET list" THEN rows ELSE @,
                                ![s].content = IF net[s].method = "GET row" THEN rows[net[s].id] ELSE @]
     \/ /\ net' = [net EXCEPT ![s].phase = "refused"]
        /\ UNCHANGED rows
  /\ UNCHANGED <<page, listed, form, saving, asked, deleting, clicks, meant,
                 missed>>

Arrived(s, ms) == net[s] # Idle /\ net[s].method \in ms /\ net[s].phase # "sent"
Fine(s) == net[s].phase = "done"
Gone(s) == [net EXCEPT ![s] = Idle]

ListArrives(s) ==
  /\ Arrived(s, {"GET list"})
  /\ listed' = IF Fine(s) THEN net[s].list ELSE listed
  /\ missed' = (missed \/ ~Fine(s))
  /\ net' = Gone(s)
  /\ UNCHANGED <<page, rows, form, saving, asked, deleting, clicks, meant>>

\* The second half of openEdit of the account pages; a record that is gone is an error.
RowArrives(s) ==
  /\ Arrived(s, {"GET row"})
  /\ form' = IF Fine(s) /\ net[s].content > 0
               THEN [form EXCEPT !.open = TRUE, !.id = net[s].id, !.content = net[s].content]
               ELSE form
  /\ net' = Gone(s)
  /\ UNCHANGED <<page, rows, listed, saving, asked, deleting, clicks, meant,
                 missed>>

\* The mistake of not asking for the list again.
AfterSaveQuietly(s) ==
  /\ form' = IF Fine(s) THEN [form EXCEPT !.open = FALSE] ELSE form
  /\ net' = Gone(s)
  /\ missed' = (missed \/ net[s].phase = "lost")

\* The end of a save: a success closes the dialog, whatever it shows by now.
AfterSave(s) ==
  /\ form' = IF Fine(s)
               THEN IF page.clears THEN ClosedForm ELSE [form EXCEPT !.open = FALSE]
               ELSE form
  /\ net' = IF Fine(s) THEN Refetched(s) ELSE Gone(s)
  /\ missed' = (missed \/ net[s].phase = "lost")

SaveArrives(s) ==
  /\ Arrived(s, {"POST", "PUT"})
  /\ AfterSave(s)
  /\ saving' = FALSE
  /\ UNCHANGED <<page, rows, listed, asked, deleting, clicks, meant>>

DeleteArrives(s) ==
  /\ Arrived(s, {"DELETE"})
  /\ asked' = IF Fine(s) THEN [open |-> FALSE, id |-> NoRecord] ELSE asked
  /\ form' = IF Fine(s) /\ page.clears THEN [form EXCEPT !.id = NoRecord, !.content = 0] ELSE form
  /\ net' = IF Fine(s) THEN Refetched(s) ELSE Gone(s)
  /\ missed' = (missed \/ net[s].phase = "lost")
  /\ deleting' = FALSE
  /\ UNCHANGED <<page, rows, listed, saving, clicks, meant>>

\* React asks for the list again after an error too.
ToggleArrives(s) ==
  /\ Arrived(s, {"PUT row"})
  /\ net' = IF Fine(s) \/ page.latest THEN Refetched(s) ELSE Gone(s)
  /\ missed' = (missed \/ (net[s].phase = "lost" /\ ~page.latest))
  /\ UNCHANGED <<page, rows, listed, form, saving, asked, deleting, clicks, meant>>

Answer(s) ==
  \/ Serve(s) \/ ListArrives(s) \/ RowArrives(s)
  \/ SaveArrives(s) \/ DeleteArrives(s) \/ ToggleArrives(s)

Next ==
  \/ OpenCreate \/ CloseForm \/ Save \/ RefuseDelete \/ ConfirmDelete \/ Refresh
  \/ \E i \in Records : OpenEdit(i) \/ Toggle(i) \/ AskDelete(i)
  \/ \E c \in Contents : Type(c)
  \/ \E s \in NetSlots : Answer(s)

Spec == Init /\ [][Next]_vars
-----------------------------------------------------------------------------
\* The pages on which no answer writes into the form: it is filled by a click
\* on a row, together with isEdit, and is not emptied by a success.
ClickFilled == page.load = "row" /\ ~page.clears

\* On those pages what is sent is what the user chose: a form opened on a row
\* never creates a second record, an update goes to the row it was opened on,
\* and the record deleted is the one whose button was pressed, although the
\* answers of earlier saves and deletions close dialogs at any moment.
MeantAsSent ==
  ClickFilled =>
    \A s \in NetSlots : net[s] # Idle =>
      CASE net[s].method = "POST" -> net[s].meant = NoRecord
        [] net[s].method \in {"PUT", "DELETE"} -> net[s].id = net[s].meant
        [] OTHER -> TRUE

\* The pages of React show what the server has as soon as nothing is in flight,
\* unless an error hid a change: each success asks for the list again, and an
\* older answer does not overwrite a newer one.
QuietListIsFresh ==
  page.latest /\ ~missed /\ (\A s \in NetSlots : net[s] = Idle) => listed = rows
=============================================================================
