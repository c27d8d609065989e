--------------------------- MODULE InvoicePlatform ---------------------------
(***************************************************************************)
(* The enterprise example (examples/enterprise-platform): browsers with    *)
(* the billing, project and identity capabilities, a server whose handlers *)
(* wait for the database between their steps, and a live feed of every     *)
(* project's invoices.                                                     *)
(*                                                                         *)
(* A list of invoices is named by its place in the history of its project: *)
(* held[p][k] is what the database held after k changes.  Streams are      *)
(* calls too, with what is under way on their connection.                  *)
(***************************************************************************)
EXTENDS FiniteSetsExt, Naturals, SequencesExt

CONSTANTS Browsers,
          ProjectIds,
          Scripts,      \* the calls of a behaviour, made in any order
          MaxFaults     \* bound: calls, mails and queries that fail

VARIABLES accounts,     \* who has signed up
          sessions,     \* token -> account
          held,         \* project -> its lists of invoices, the last one current
          subscribers,  \* the hub: project -> the streams of its set
          calls, browser, faults

platformVars == <<accounts, sessions, held, subscribers, calls, browser, faults>>

Directory == "projects"   \* the list of the projects themselves
NoAccount == "nobody"
NoList == [project |-> "none", version |-> 0]

\* The directory is not a project, and what opens a project is asked of it alone.
ASSUME ScriptsAssumption ==
  /\ Directory \notin ProjectIds
  /\ \A script \in Scripts : \A n \in DOMAIN script :
       /\ script[n].by \in Browsers
       /\ IF script[n].route = "open" THEN script[n].project = Directory
          ELSE script[n].project \in ProjectIds /\ script[n].route # "projects"
       /\ script[n].route = "register" => script[n].account # NoAccount

\* What a browser asks for.
Ask(route, by, project, account, invoice, fit) ==
  [route |-> route, by |-> by, project |-> project, account |-> account, invoice |-> invoice, fit |-> fit]

Placed(ask) ==
  [route |-> ask.route, by |-> ask.by, project |-> ask.project, account |-> ask.account,
   invoice |-> ask.invoice, fit |-> ask.fit,
   cookie |-> 0, at |-> "unsent", todo |-> <<>>, status |-> 0, who |-> NoAccount,
   wrote |-> 0, list |-> 0, overlay |-> <<>>, arriving |-> <<>>, since |-> 0, alive |-> TRUE]

CurrentInvoices(p) == held[p][Len(held[p])]

PlatformStart(script) ==
  /\ accounts = {"admin"}
  /\ sessions = [token \in {0} |-> "admin"]
  /\ held = [p \in ProjectIds \cup {Directory} |-> << <<"draft">> >>]
  /\ subscribers = <<>>
  /\ calls = [n \in DOMAIN script |-> Placed(script[n])]
  /\ browser = [b \in Browsers |-> [cookie |-> 0, shown |-> NoList, latest |-> 0, pending |-> <<>>,
                                    me |-> NoAccount, seen |-> [p \in ProjectIds \cup {Directory} |-> 0]]]
  /\ faults = 0

PlatformInit == \E script \in Scripts : PlatformStart(script)

(***************************************************************************)
(* The server                                                              *)
(***************************************************************************)

\* Mutant: the list is read before the change is made.
ProgramReadsFirst(route) ==
  CASE route = "register" -> <<"account">>
    [] route = "login"    -> <<"verify">>
    [] route = "open"     -> <<"insert">>
    [] route = "create"   -> <<"read", "insert", "publish">>
    [] route = "pay"      -> <<"find", "read", "update", "publish">>
    [] route = "dispute"  -> <<"find", "read", "update", "mail", "publish">>
    [] OTHER              -> <<"read">>

\* What a handler awaits, in order (createInvoice, markInvoicePaid, disputeInvoice).
Program(route) ==
  CASE route = "register" -> <<"account">>
    [] route = "login"    -> <<"verify">>
    [] route = "open"     -> <<"insert">>
    [] route = "create"   -> <<"insert", "read", "publish">>
    [] route = "pay"      -> <<"find", "update", "read", "publish">>
    [] route = "dispute"  -> <<"find", "update", "mail", "read", "publish">>
    [] OTHER              -> <<"read">>

PublicRoutes == {"register", "login", "logout"}

At(n, step) == calls[n].at = "running" /\ Head(calls[n].todo) = step

Answered(call, status) == [call EXCEPT !.at = "answered", !.status = status, !.todo = <<>>]
Advanced(call) ==
  IF Tail(call.todo) = <<>> THEN Answered(call, 200) ELSE [call EXCEPT !.todo = Tail(@)]
Becomes(n, call) == calls' = [calls EXCEPT ![n] = call]

\* Mutant: the session is looked up and never asked about.
SignedInAnyway(call) == TRUE

\* requireSession: the token of the request is one of the sessions.
SignedIn(call) == call.cookie \in DOMAIN sessions

\* subscribeToInvoiceEvents.
SubscribeToEvents(p, n) ==
  subscribers' = [q \in DOMAIN subscribers \cup {p} |->
                    (IF q \in DOMAIN subscribers THEN subscribers[q] ELSE {})
                    \cup (IF q = p THEN {n} ELSE {})]

\* handleRequest up to its first query: the route, the session, the input.
Enter(n) ==
  LET call == calls[n]
      known == [call EXCEPT !.who = IF call.cookie \in DOMAIN sessions THEN sessions[call.cookie] ELSE NoAccount]
      through == call.route \in PublicRoutes \/ SignedIn(call)
  IN  /\ call.at = "sent"
      /\ CASE ~through -> Becomes(n, Answered(known, 401)) /\ UNCHANGED <<sessions, subscribers>>
           [] through /\ ~call.fit -> Becomes(n, Answered(known, 400)) /\ UNCHANGED <<sessions, subscribers>>
           [] through /\ call.fit /\ call.route = "logout" ->
                /\ sessions' = [token \in DOMAIN sessions \ {call.cookie} |-> sessions[token]]
                /\ Becomes(n, Answered(known, 200)) /\ UNCHANGED subscribers
           [] through /\ call.fit /\ call.route = "stream" ->
                /\ SubscribeToEvents(call.project, n)
                /\ Becomes(n, [Answered(known, 200) EXCEPT !.since = Len(held[call.project])])
                /\ UNCHANGED sessions
           [] through /\ call.fit /\ call.route = "me" ->
                Becomes(n, Answered(known, 200)) /\ UNCHANGED <<sessions, subscribers>>
           [] OTHER -> /\ Becomes(n, [known EXCEPT !.at = "running", !.todo = Program(call.route)])
                       /\ UNCHANGED <<sessions, subscribers>>
      /\ UNCHANGED <<accounts, held, browser, faults>>

\* createSession: the call's number stands for the random token.
CreateSession(n, account) ==
  sessions' = [token \in DOMAIN sessions \cup {n} |-> IF token = n THEN account ELSE sessions[token]]

\* An email is unique in the collection: a second sign-up throws.
Register(n) ==
  /\ At(n, "account")
  /\ IF calls[n].account \in accounts
     THEN Becomes(n, Answered(calls[n], 500)) /\ UNCHANGED <<accounts, sessions>>
     ELSE /\ accounts' = accounts \cup {calls[n].account}
          /\ CreateSession(n, calls[n].account) /\ Becomes(n, Advanced(calls[n]))
  /\ UNCHANGED <<held, subscribers, browser, faults>>

Login(n) ==
  /\ At(n, "verify")
  /\ IF calls[n].account \in accounts
     THEN CreateSession(n, calls[n].account) /\ Becomes(n, Advanced(calls[n]))
     ELSE Becomes(n, Answered(calls[n], 401)) /\ UNCHANGED sessions
  /\ UNCHANGED <<accounts, held, subscribers, browser, faults>>

Stores(n, list) ==
  /\ held' = [held EXCEPT ![calls[n].project] = Append(@, list)]
  /\ Becomes(n, [Advanced(calls[n]) EXCEPT !.wrote = Len(held[calls[n].project]) + 1])
  /\ UNCHANGED <<accounts, sessions, subscribers, browser, faults>>

Insert(n) == At(n, "insert") /\ Stores(n, Append(CurrentInvoices(calls[n].project), "draft"))

\* An invoice is found by its id and refused under another project.
FindInvoice(n) ==
  /\ At(n, "find")
  /\ LET invoice == calls[n].invoice
     IN  IF invoice.project = calls[n].project /\ invoice.place \in DOMAIN CurrentInvoices(invoice.project)
         THEN Becomes(n, Advanced(calls[n])) ELSE Becomes(n, Answered(calls[n], 404))
  /\ UNCHANGED <<accounts, sessions, held, subscribers, browser, faults>>

UpdateInvoice(n) ==
  /\ At(n, "update")
  /\ Stores(n, [CurrentInvoices(calls[n].project) EXCEPT
                  ![calls[n].invoice.place] = IF calls[n].route = "pay" THEN "paid" ELSE "disputed"])

SendEmail(n) ==
  /\ At(n, "mail") /\ Becomes(n, Advanced(calls[n]))
  /\ UNCHANGED <<accounts, sessions, held, subscribers, browser, faults>>

\* currentInvoices, listProjects.
ReadList(n) ==
  /\ At(n, "read")
  /\ Becomes(n, [Advanced(calls[n]) EXCEPT !.list = Len(held[calls[n].project])])
  /\ UNCHANGED <<accounts, sessions, held, subscribers, browser, faults>>

\* publishInvoiceEvent and the answer: the list as it was read, on every stream.
Publish(n) ==
  /\ At(n, "publish")
  /\ LET p == calls[n].project
         to == IF p \in DOMAIN subscribers THEN subscribers[p] ELSE {}
     IN calls' = [m \in DOMAIN calls |->
                    IF m = n THEN Advanced(calls[n])
                    ELSE IF m \in to /\ calls[m].alive
                         THEN [calls[m] EXCEPT !.arriving = Append(@, calls[n].list)] ELSE calls[m]]
  /\ UNCHANGED <<accounts, sessions, held, subscribers, browser, faults>>

\* Something awaited throws: what was done stays done.
HandlerThrows(n) ==
  /\ calls[n].at = "running" /\ Head(calls[n].todo) # "publish" /\ faults < MaxFaults
  /\ faults' = faults + 1
  /\ Becomes(n, Answered(calls[n], 500))
  /\ UNCHANGED <<accounts, sessions, held, subscribers, browser>>

\* Mutant: the set goes with its first stream.
LastOfIts(streams, n) == TRUE

IsLast(streams, n) == streams = {n}

\* The connection's close event: unsubscribe.
HangUp(n) ==
  /\ calls[n].route = "stream" /\ calls[n].status = 200 /\ ~calls[n].alive
  /\ LET p == calls[n].project
     IN  /\ p \in DOMAIN subscribers /\ n \in subscribers[p]
         /\ subscribers' = IF IsLast(subscribers[p], n)
                           THEN [q \in DOMAIN subscribers \ {p} |-> subscribers[q]]
                           ELSE [subscribers EXCEPT ![p] = @ \ {n}]
  /\ UNCHANGED <<accounts, sessions, held, calls, browser, faults>>

(***************************************************************************)
(* The browsers                                                            *)
(***************************************************************************)
ShownList(b) ==
  IF browser[b].shown = NoList THEN <<>> ELSE held[browser[b].shown.project][browser[b].shown.version]

\* markInvoicePaid's optimistic callback: all of the authoritative list, one invoice changed.
Optimistic(call) ==
  LET list == ShownList(call.by)
  IN  IF call.route = "pay" /\ browser[call.by].shown.project = call.invoice.project /\ call.invoice.place \in DOMAIN list
      THEN [list EXCEPT ![call.invoice.place] = "paid"] ELSE <<>>

\* What the panel renders: the overlay of the newest call that has one.
Rendered(b) ==
  LET pending == browser[b].pending
  IN  IF pending = <<>> THEN ShownList(b) ELSE calls[pending[Len(pending)]].overlay

\* A call of a capability, or a sign-in; a stream is shared by those who ask for it.
Send(n) ==
  LET call == calls[n]
      sent == [call EXCEPT !.at = "sent", !.cookie = browser[call.by].cookie, !.overlay = Optimistic(call)]
  IN  /\ call.at = "unsent"
      /\ call.route = "stream" =>
           \A m \in DOMAIN calls \ {n} :
             calls[m].route = "stream" /\ calls[m].by = call.by /\ calls[m].project = call.project
               => calls[m].at = "unsent" \/ ~calls[m].alive
      /\ Becomes(n, sent)
      /\ browser' = [browser EXCEPT ![call.by].latest = IF call.route = "list" THEN n ELSE @,
                                    ![call.by].pending = IF sent.overlay = <<>> THEN @ ELSE Append(@, n)]
      /\ UNCHANGED <<accounts, sessions, held, subscribers, faults>>

\* A list is written to its field; `seen` keeps the newest that ever was.
Commits(state, p, version) ==
  [state EXCEPT !.shown = IF p = Directory THEN @ ELSE [project |-> p, version |-> version],
                !.seen[p] = Max({@, version})]

\* A call is pending once.
Settled(state, n) ==
  LET places == {i \in DOMAIN state.pending : state.pending[i] = n}
  IN  IF places = {} THEN state ELSE [state EXCEPT !.pending = RemoveAt(@, CHOOSE i \in places : TRUE)]

\* A getter's answer is dropped when a newer call of it was begun (ADR 0024).
IsLatest(call, n) == call.route # "list" \/ browser[call.by].latest = n

\* The answer reaches the caller.  createProject goes on to fetch the list.
Receive(n) ==
  LET call == calls[n]
      state == Settled(browser[call.by], n)
      ok == call.status = 200
  IN  /\ call.at = "answered" /\ (call.route = "stream" => call.status # 200)
      /\ IF ok /\ call.route = "open"
         THEN Becomes(n, [call EXCEPT !.route = "projects", !.at = "sent", !.cookie = browser[call.by].cookie])
         ELSE Becomes(n, [call EXCEPT !.at = "settled"])
      /\ browser' = [browser EXCEPT ![call.by] =
           CASE ok /\ call.list # 0 /\ IsLatest(call, n)       -> Commits(state, call.project, call.list)
             [] ok /\ call.route \in {"login", "register"}      -> [state EXCEPT !.cookie = n]
             [] ok /\ call.route = "me"                        -> [state EXCEPT !.me = call.who]
             [] OTHER                                          -> state]
      /\ UNCHANGED <<accounts, sessions, held, subscribers, faults>>

\* The request or its answer is lost: the call rejects, the handler may still run.
GivesUp(n) ==
  /\ calls[n].at \in {"sent", "answered"} /\ calls[n].route # "stream" /\ faults < MaxFaults
  /\ faults' = faults + 1
  /\ Becomes(n, [calls[n] EXCEPT !.at = "settled"])
  /\ browser' = [browser EXCEPT ![calls[n].by] = Settled(@, n)]
  /\ UNCHANGED <<accounts, sessions, held, subscribers>>

IsOpen(n) == calls[n].route = "stream" /\ calls[n].status = 200 /\ calls[n].alive

\* The reader's loop: one frame, one commit.
Hear(n) ==
  /\ IsOpen(n) /\ calls[n].arriving # <<>>
  /\ Becomes(n, [calls[n] EXCEPT !.arriving = Tail(@)])
  /\ browser' = [browser EXCEPT ![calls[n].by] = Commits(@, calls[n].project, Head(calls[n].arriving))]
  /\ UNCHANGED <<accounts, sessions, held, subscribers, faults>>

\* The view lets go, or the network does: there is no second attempt.
Disconnect(n) ==
  /\ IsOpen(n)
  /\ Becomes(n, [calls[n] EXCEPT !.alive = FALSE, !.arriving = <<>>])
  /\ UNCHANGED <<accounts, sessions, held, subscribers, browser, faults>>

PlatformNext ==
  \E n \in DOMAIN calls :
    \/ Send(n) \/ Enter(n) \/ Register(n) \/ Login(n) \/ Insert(n) \/ FindInvoice(n) \/ UpdateInvoice(n)
    \/ SendEmail(n) \/ ReadList(n) \/ Publish(n) \/ HandlerThrows(n) \/ HangUp(n)
    \/ Receive(n) \/ GivesUp(n) \/ Hear(n) \/ Disconnect(n)

-----------------------------------------------------------------------------
Quiet ==
  \A n \in DOMAIN calls :
    /\ calls[n].at \in {"unsent", "settled"} \/ (calls[n].route = "stream" /\ calls[n].status = 200)
    /\ calls[n].arriving = <<>>

\* Once everything has arrived, a browser with an open feed has seen every change
\* made since it was opened whose handler did not fail, however handlers, answers
\* and events were interleaved (functions.ts, sse.ts).
EveryChangeArrives ==
  Quiet => \A n, m \in DOMAIN calls :
             IsOpen(n) /\ calls[m].status = 200 /\ calls[m].project = calls[n].project
               /\ calls[m].wrote > calls[n].since
             => browser[calls[n].by].seen[calls[n].project] >= calls[m].wrote

\* The list a mutation is answered with is never older than the mutation, the
\* list that createProject fetches afterwards included (functions.ts,
\* projects.capability.ts).
AnswerHoldsOwnChange ==
  \A n \in DOMAIN calls : calls[n].list # 0 => calls[n].list >= calls[n].wrote

\* No list and no feed goes to a request that came without a live session, and
\* what the newest pending payment claims is on the screen (http-handler.ts,
\* main-headless.ts "the optimistic flip is visible immediately").
OnlyTheSignedIn ==
  /\ \A n \in DOMAIN calls : calls[n].list # 0 \/ IsOpen(n) => calls[n].who # NoAccount
  /\ \A b \in Browsers : browser[b].pending # <<>> =>
       LET newest == calls[browser[b].pending[Len(browser[b].pending)]]
       IN  Rendered(b)[newest.invoice.place] = "paid"

\* Both: what a request is answered with is its own, and goes to nobody else.
AnswersAreOwn == AnswerHoldsOwnChange /\ OnlyTheSignedIn
=============================================================================
