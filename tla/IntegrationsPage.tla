-------------------------- MODULE IntegrationsPage --------------------------
(***************************************************************************)
(* The integrations page of one account, and its connections: one card per *)
(* app, and a drawer, opened by the address, whose forms are filled from a *)
(* card.  All forms stay mounted and are filled together, whenever the     *)
(* address or the cards change.  Cards may be asked for again while other  *)
(* answers, and changes from elsewhere, are on their way.                  *)
(***************************************************************************)
EXTENDS Naturals, FiniteSets

CONSTANTS
  Apps,             \* apps with a form: Zoom and YouTube
  KeyedApps,        \* apps whose settings name the external account: Zoom
  RowIds,           \* ids of connections; each is one app's
  AppOf,            \* the app of a connection
  Connected,        \* the connections that are there at first
  MaxPageOps, MaxCardLoads, MaxWrites,
  NoConnection      \* no connection, drawer, id or answer

ASSUME IntegrationsAssumption ==
  /\ NoConnection \notin Apps \cup RowIds /\ AppOf \in [RowIds -> Apps] /\ KeyedApps \subseteq Apps
  /\ Connected \subseteq RowIds
  /\ {MaxPageOps, MaxWrites} \subseteq Nat /\ MaxCardLoads \in Nat \ {0}

VARIABLES
  connection,       \* connection[i]: the status of the connection; "none": there is none
  latest,           \* latest[p]: the connection of the app that was written last
  cards,            \* cards[p]: the connection on the card, with its status
  address,          \* the address: ?tab, ?id
  form,             \* form[p]: whose settings its fields show, and for which drawer one was typed in
  cardLoads,        \* requests for the cards, with the id in the address when they were asked for
  saves,            \* saves, disconnections and deletions on their way
  mixedUp,          \* history: a save sent fields of another connection than its own
  pageOps

integrationsVars == <<connection, latest, cards, address, form, cardLoads, saves, mixedUp, pageOps>>

ConnectionIds == RowIds \cup {NoConnection}
Statuses == {"none", "active", "disabled"}
NoCard == [id |-> NoConnection, status |-> "none"]
NoDrawer == [tab |-> NoConnection, id |-> NoConnection]
Empty == [of |-> NoConnection, typedFor |-> {}]

IntegrationsTypeOK ==
  /\ connection \in [RowIds -> Statuses] /\ latest \in [Apps -> ConnectionIds]
  /\ cards \in [Apps -> [id : ConnectionIds, status : Statuses]]
  /\ address \in [tab : Apps \cup {NoConnection}, id : ConnectionIds]
  /\ \A p \in Apps : form[p].of \in ConnectionIds /\ form[p].typedFor \subseteq ConnectionIds
  /\ Cardinality(cardLoads) <= MaxCardLoads /\ Cardinality(saves) <= MaxWrites
  /\ mixedUp \in BOOLEAN /\ pageOps \in 0..MaxPageOps

IntegrationsInit ==
  /\ connection = [i \in RowIds |-> IF i \in Connected THEN "active" ELSE "none"]
  /\ latest = [p \in Apps |-> NoConnection]
  /\ cards = [p \in Apps |-> NoCard] /\ address = NoDrawer /\ form = [p \in Apps |-> Empty]
  /\ cardLoads = {[n |-> 1, id |-> NoConnection, got |-> NoConnection]} /\ saves = {}
  /\ mixedUp = FALSE /\ pageOps = 0

PageOp == pageOps < MaxPageOps /\ pageOps' = pageOps + 1

\* fillForms: with an id in the address, every form shows that card, or nothing; otherwise
\* each shows the card of its app.  Secrets start empty.  The mutant keeps what was typed.
FillForms(list, id) ==
  [p \in Apps |->
     [of |-> IF id = NoConnection THEN list[p].id
             ELSE IF \E q \in Apps : list[q].id = id THEN id ELSE NoConnection,
      typedFor |-> {}]]

FillFormsKept(list, id) == [p \in Apps |-> [FillForms(list, id)[p] EXCEPT !.typedFor = form[p].typedFor]]
Fill(list, id) == FillForms(list, id)

\* The forms after an answer: fillForms of the request's own closure, then the effect of
\* `cards', with the address of now.  The mutant has the effect of the address only.
FilledByClosure(list, id) == Fill(list, id)
AfterCards(list, id) == Fill(list, address.id)

-----------------------------------------------------------------------------
(* The backend *)

OfApp(p) == {i \in RowIds : AppOf[i] = p /\ connection[i] # "none"}

\* listConnections: of several connections of an app, an active one, then the latest.
Better(i, j) ==
  \/ connection[i] = "active" /\ connection[j] # "active"
  \/ connection[i] = connection[j] /\ (j = latest[AppOf[j]] => i = j)

Best(p, i) == IF OfApp(p) = {} THEN i = NoConnection ELSE i \in OfApp(p) /\ \A j \in OfApp(p) : Better(i, j)

CardFor(i) == IF i = NoConnection THEN NoCard ELSE [id |-> i, status |-> connection[i]]

Written(i, status) ==
  connection' = [connection EXCEPT ![i] = status] /\ latest' = [latest EXCEPT ![AppOf[i]] = i]

-----------------------------------------------------------------------------
\* fetchCards, with the closures of the last render.
Asked == \E n \in 1..MaxCardLoads :
  /\ \A load \in cardLoads : load.n # n
  /\ cardLoads' = cardLoads \cup {[n |-> n, id |-> address.id, got |-> NoConnection]}

CardsRead(load) ==
  /\ load.got = NoConnection
  /\ \E shown \in [Apps -> ConnectionIds] :
       /\ \A p \in Apps : Best(p, shown[p])
       /\ cardLoads' = (cardLoads \ {load}) \cup {[load EXCEPT !.got = [p \in Apps |-> CardFor(shown[p])]]}
  /\ UNCHANGED <<connection, latest, cards, address, form, saves, mixedUp, pageOps>>

CardsArrive(load) ==
  /\ load.got # NoConnection /\ cardLoads' = cardLoads \ {load}
  /\ cards' = load.got /\ form' = AfterCards(load.got, load.id)
  /\ UNCHANGED <<connection, latest, address, saves, mixedUp, pageOps>>

CardsFail(load) ==
  /\ cardLoads' = cardLoads \ {load}
  /\ UNCHANGED <<connection, latest, cards, address, form, saves, mixedUp, pageOps>>

\* openDrawer from a card or "add", closeDrawer, a link: the effect fills the forms.
Goes(to) ==
  /\ address' = to /\ form' = Fill(cards, to.id)
  /\ UNCHANGED <<connection, latest, cards, cardLoads, saves, mixedUp>>

OpenDrawer(p) == PageOp /\ Goes([tab |-> p, id |-> cards[p].id])
AddNew(p) == PageOp /\ Goes([tab |-> p, id |-> NoConnection])
CloseDrawer == address.tab # NoConnection /\ PageOp /\ Goes(NoDrawer)

TypeIn ==
  /\ address.tab # NoConnection /\ PageOp
  /\ form' = [form EXCEPT ![address.tab].typedFor = @ \cup {address.id}]
  /\ UNCHANGED <<connection, latest, cards, address, cardLoads, saves, mixedUp>>

Sends(write) == Cardinality(saves) < MaxWrites /\ saves' = saves \cup {write}

\* Fields that are neither of this connection nor typed in its drawer.
Foreign(f, id) == f.of \notin {id, NoConnection} \/ f.typedFor \notin {{}, {id}}

\* save: the fields of the open drawer, for the id in the address, if it has one.
Save ==
  /\ address.tab # NoConnection /\ PageOp
  /\ mixedUp' = (mixedUp \/ (address.id # NoConnection /\ Foreign(form[address.tab], address.id)))
  /\ \E status \in {"active", "disabled"} :
       Sends([app |-> address.tab, id |-> address.id, status |-> status])
  /\ UNCHANGED <<connection, latest, cards, address, form, cardLoads>>

Disconnect(p) ==
  /\ cards[p].status = "active" /\ PageOp
  /\ Sends([app |-> p, id |-> cards[p].id, status |-> "disabled"])
  /\ UNCHANGED <<connection, latest, cards, address, form, cardLoads, mixedUp>>

DeleteConnection(p) ==
  /\ cards[p].status = "disabled" /\ PageOp
  /\ Sends([app |-> p, id |-> cards[p].id, status |-> "none"])
  /\ UNCHANGED <<connection, latest, cards, address, form, cardLoads, mixedUp>>

\* updateConnection, disconnect, deleteConnection, then fetchCards.  Without an id, or when
\* that connection is gone, a new one is made; Zoom's may be found by its account.
Targets(s) ==
  IF s.id # NoConnection /\ (s.status = "none" \/ connection[s.id] # "none")
  THEN {s.id} \ {i \in RowIds : connection[i] = "none"}
  ELSE {i \in RowIds : /\ AppOf[i] = s.app
                       /\ connection[i] = "none" \/ (s.id = NoConnection /\ s.app \in KeyedApps)}

WriteAnswered(s) ==
  /\ saves' = saves \ {s} /\ Asked
  /\ \E i \in Targets(s) : Written(i, s.status)
  /\ UNCHANGED <<cards, address, form, mixedUp, pageOps>>

WriteFails(s) ==
  /\ saves' = saves \ {s}
  /\ UNCHANGED <<connection, latest, cards, address, form, cardLoads, mixedUp, pageOps>>

\* Another tab, or a callback of Google's consent screen.
Elsewhere(i, status) ==
  /\ status # connection[i] /\ PageOp /\ Written(i, status)
  /\ UNCHANGED <<cards, address, form, cardLoads, saves, mixedUp>>

IntegrationsNext ==
  \/ \E load \in cardLoads : CardsRead(load) \/ CardsArrive(load) \/ CardsFail(load)
  \/ \E p \in Apps : OpenDrawer(p) \/ AddNew(p) \/ Disconnect(p) \/ DeleteConnection(p)
  \/ CloseDrawer \/ TypeIn \/ Save
  \/ \E s \in saves : WriteAnswered(s) \/ WriteFails(s)
  \/ \E i \in RowIds, status \in Statuses : Elsewhere(i, status)

-----------------------------------------------------------------------------
\* What is saved for a connection was filled in from its own card, or typed in its own
\* drawer, although all forms are filled together, drawers change while cards are on their
\* way, and an answer first fills the forms for the drawer it was asked from.
SavesItsOwn == ~mixedUp
=============================================================================
