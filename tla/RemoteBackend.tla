---------------------------- MODULE RemoteBackend ----------------------------
(***************************************************************************)
(* The command line's backend over the daemon (cli/backend/remote.ts):     *)
(* connect() as the sequence of calls that it is, the handle it returns,   *)
(* the daemon's events on their way to that handle, and dispose().         *)
(*                                                                         *)
(* A DaemonClient is named after the connect() that made it.  Its lines    *)
(* come in order, several to one `data' event, and what awaits an answer   *)
(* goes on after the event.  Of the daemon there is what a client can      *)
(* tell: who holds a device and which clients hear of it (module Daemon    *)
(* has the rest); the other clients are one rival.                         *)
(***************************************************************************)
EXTENDS Naturals, Sequences, FiniteSets

CONSTANTS
  Session,      \* calls of connect()
  Modem,        \* deviceIds
  Viewer,       \* bound: the sessions whose handle's toolkit is looked at
  Nil,
  MaxNews,      \* bound: events the daemon forwards
  MaxBatch,     \* bound: lines in one `data' event
  Overlapping   \* whether connect() may be called beside another one or a dispose(),
                \* or twice for a device, as no command does

ASSUME RemoteAssumption ==
  /\ Viewer \subseteq Session /\ Nil \notin Session \cup Modem /\ Session \cap Modem = {} /\ "rival" \notin Session
  /\ MaxNews \in Nat /\ MaxBatch \in Nat \ {0} /\ Overlapping \in BOOLEAN

VARIABLES
  _client,    \* the DaemonClient the backend keeps, or Nil
  session,    \* Session -> [pc, via, modem, wants, await]: which call of connect() is
              \* awaited, over which client, and how far the call has come; "target"
              \* is wanted until it is looked for
  link,       \* Session -> its client's socket: "none", "opening", "up", "ended"
  _claimed,   \* the devices connect() has claimed
  _handles,   \* Modem -> the session whose handle is kept for it, or Nil
  disposal,   \* dispose(): [pc, via, left, at, await]
  holder,     \* the daemon's leases: Modem -> a client, "rival" or Nil
  heeded,     \* the clients whose close the daemon has not seen
  subscribed, \* the daemon's subscriptions, as pairs of client and device
  lines,      \* Session -> the lines on the way to that client
  news, menu, \* how many events were forwarded; Modem -> how many were menus
  owed,       \* history: Session -> events sent to its handle that it has not emitted
  refused,    \* the sessions whose last service call was refused
  toolkit,    \* Session -> the Stk proxy: [view, menu], the view being "none" before its
              \* first use, then "shown" or "left"; the menu 0, or 1 + the number of the
              \* menu it knows
  crashed

backend == <<_client, _claimed, _handles>>
daemonSide == <<holder, heeded, subscribed, news, menu>>
handles == <<owed, refused, toolkit>>
remoteVars == <<backend, session, link, disposal, daemonSide, lines, handles, crashed>>

HandleInit ==
  /\ owed = [c \in Session |-> 0] /\ refused = {}
  /\ toolkit = [c \in Session |-> [view |-> "none", menu |-> 0]]
RemoteInit ==
  /\ _client = Nil /\ _claimed = {} /\ _handles = [m \in Modem |-> Nil]
  /\ session = [c \in Session |->
       [pc |-> "idle", via |-> Nil, modem |-> Nil, wants |-> {}, await |-> "none"]]
  /\ link = [c \in Session |-> "none"] /\ HandleInit
  /\ disposal = [pc |-> "none", via |-> Nil, left |-> {}, at |-> Nil, await |-> "none"]
  /\ holder = [m \in Modem |-> Nil] /\ heeded = {} /\ subscribed = {}
  /\ lines = [c \in Session |-> <<>>] /\ news = 0 /\ menu = [m \in Modem |-> 0]
  /\ crashed = FALSE

Connecting(c) == session[c].pc \in {"client", "find", "wait", "claim", "info", "subscribe"}

-----------------------------------------------------------------------------
(* connect()                                                               *)

(* _resolveTargetDevice(): the list is asked only for a target.            *)
Resolves(s) == IF "target" \in s.wants THEN "find" ELSE "wait"

NextCallFrom(s, claims) ==
  CASE s.pc = "client" -> Resolves(s)
    [] s.pc = "find" -> "wait"
    [] s.pc = "wait" -> IF claims THEN "claim" ELSE "info"
    [] s.pc = "claim" -> "info"
    [] s.pc = "info" -> "subscribe"
    [] s.pc = "subscribe" -> "open"
(* Mutant: an exclusive connection is claimed only if its target is named. *)
NextCallUnclaimed(s) == NextCallFrom(s, s.wants = {"exclusive", "target"})
(* The call behind the one that was answered: the claim unless the caller  *)
(* opted out.                                                              *)
NextCall(s) == NextCallFrom(s, "exclusive" \in s.wants)

(* connect() goes on, in s: a call over a socket that is gone is rejected. *)
Gone(s) == [s EXCEPT !.pc = "rejected", !.via = Nil, !.wants = {}, !.await = "none"]
Continues(s, up) ==
  IF NextCall(s) = "open" THEN [s EXCEPT !.pc = "open", !.await = "none"]
  ELSE IF up THEN [s EXCEPT !.pc = NextCall(s), !.wants = @ \ {"target"}, !.await = "sent"] ELSE Gone(s)

(* withDevice() and the monitor connect once, to one device, and dispose   *)
(* when they are through.                                                  *)
InTurn(m) ==
  /\ disposal.pc = "none"
  /\ \A o \in Session : ~Connecting(o) /\ (session[o].pc = "open" => session[o].modem # m)

(* connect() begins with _ensureClient().                                  *)
Begins(c, m, wants) ==
  LET s == [pc |-> "client", via |-> _client, modem |-> m, wants |-> wants, await |-> "none"] IN
  /\ session[c].pc = "idle"
  /\ Overlapping \/ InTurn(m)
  /\ \/ /\ _client # Nil /\ session' = [session EXCEPT ![c] = Continues(s, link[_client] = "up")]
        /\ UNCHANGED link
     \/ /\ _client = Nil /\ session' = [session EXCEPT ![c] = s]
        /\ link' = [link EXCEPT ![c] = "opening"]
  /\ UNCHANGED <<backend, disposal, daemonSide, lines, handles>>

ClientConnects(c) ==
  /\ link[c] = "opening" /\ link' = [link EXCEPT ![c] = "up"]
  /\ _client' = c /\ heeded' = heeded \cup {c}
  /\ session' = [session EXCEPT ![c] = Continues([@ EXCEPT !.via = c], TRUE)]
  /\ UNCHANGED <<_claimed, _handles, disposal, holder, subscribed, news, menu, lines, handles>>

ClientFails(c) ==
  /\ link[c] = "opening" /\ link' = [link EXCEPT ![c] = "ended"]
  /\ session' = [session EXCEPT ![c] = Gone(@)]
  /\ UNCHANGED <<backend, disposal, daemonSide, lines, handles>>

(* The timer of a call; the daemon may still do what it was asked.         *)
ConnectTimesOut(c) ==
  /\ session[c].await # "none" /\ session' = [session EXCEPT ![c] = Gone(@)]
  /\ UNCHANGED <<backend, link, disposal, daemonSide, lines, handles>>

-----------------------------------------------------------------------------
(* The daemon.                                                             *)

MayHold(k, m) == holder[m] \in {k, Nil}
Sent(k, line) == [lines EXCEPT ![k] = IF link[k] = "up" THEN Append(@, line) ELSE @]

(* The daemon serves a call of connect(): the list may lack the device and *)
(* the waiting may end without it; a claim is refused for a device that is *)
(* held by another, or no longer known.                                    *)
ServesConnect(c, ok) ==
  LET s == session[c] IN
  /\ s.await = "sent" /\ s.via \in heeded
  /\ s.pc = "claim" /\ ok => MayHold(s.via, s.modem)
  /\ s.pc \in {"info", "subscribe"} => ok
  /\ session' = [session EXCEPT ![c].await = "served"]
  /\ holder' = IF s.pc = "claim" /\ ok THEN [holder EXCEPT ![s.modem] = s.via] ELSE holder
  /\ subscribed' = IF s.pc = "subscribe" THEN subscribed \cup {<<s.via, s.modem>>} ELSE subscribed
  /\ lines' = Sent(s.via, [kind |-> "answer", of |-> c, ok |-> ok])
  /\ UNCHANGED <<backend, link, disposal, heeded, news, menu, handles>>

Hearing(m) == {k \in heeded : <<k, m>> \in subscribed /\ link[k] = "up"}

(* EventBridge.forward(): one line for each client that hears of m; a menu *)
(* stands for every event but an error of the toolkit.                     *)
Forwards(m, kind) ==
  /\ news < MaxNews /\ news' = news + 1
  /\ menu' = IF kind = "menu" THEN [menu EXCEPT ![m] = @ + 1] ELSE menu
  /\ lines' = [k \in Session |->
       IF k \in Hearing(m) THEN Append(lines[k], [kind |-> kind, of |-> m, ok |-> TRUE]) ELSE lines[k]]
  /\ owed' = [c \in Session |->
       IF session[c].pc = "open" /\ session[c].modem = m /\ session[c].via \in Hearing(m)
       THEN owed[c] + 1 ELSE owed[c]]
  /\ UNCHANGED <<backend, session, link, disposal, holder, heeded, subscribed, refused, toolkit>>

(* onClientDisconnected: releaseLeases, removeClient.                      *)
SeesClose(k) ==
  /\ k \in heeded /\ link[k] = "ended" /\ heeded' = heeded \ {k}
  /\ holder' = [m \in Modem |-> IF holder[m] = k THEN Nil ELSE holder[m]]
  /\ subscribed' = {p \in subscribed : p[1] # k}
  /\ UNCHANGED <<backend, session, link, disposal, news, menu, lines, handles>>

(* Another client claims a device, or releases it.                         *)
RivalActs(m) ==
  /\ holder[m] \in {Nil, "rival"}
  /\ holder' = [holder EXCEPT ![m] = IF @ = Nil THEN "rival" ELSE Nil]
  /\ UNCHANGED <<backend, session, link, disposal, heeded, subscribed, news, menu, lines, handles>>

-----------------------------------------------------------------------------
(* The client reads.                                                       *)

ConnectAnswered(k, n) ==
  {c \in Session : session[c].await = "served" /\ session[c].via = k /\
     \E i \in 1..n : lines[k][i].kind = "answer" /\ lines[k][i].of = c}
Refused(k, n) ==
  {c \in ConnectAnswered(k, n) : \E i \in 1..n : lines[k][i] = [kind |-> "answer", of |-> c, ok |-> FALSE]}
Released(k, n) ==
  /\ disposal.await = "served" /\ disposal.via = k
  /\ \E i \in 1..n : lines[k][i].kind = "answer" /\ lines[k][i].of = Nil

(* Mutant: the notification's deviceId is not looked at.                   *)
ReachesAll(c, line) == line.kind # "answer" /\ session[c].pc = "open"
(* The 'event' listener of connect(): wired, and closed handles are deaf.  *)
Reaches(c, line) == line.kind # "answer" /\ session[c].pc = "open" /\ line.of = session[c].modem

(* _handleEvent: an error of the toolkit goes to the proxy once it is      *)
(* made, and throws if nobody listens to that; close() does not clear it.  *)
Throws(c, line) ==
  line.kind = "fault" /\ line.of = session[c].modem /\ toolkit[c].view = "left"

(* A `data' event with n lines.  The devices whose claim was answered are  *)
(* noted, and a handle is kept before its subscription is asked for.       *)
Reads(k, n) ==
  LET on == ConnectAnswered(k, n) \ Refused(k, n)
      at(pc) == {c \in on : session[c].pc = pc}
      fatal == \E c \in Session, i \in 1..n : session[c].via = k /\ Throws(c, lines[k][i]) IN
  /\ link[k] = "up" /\ n <= Len(lines[k]) /\ ~fatal
  /\ lines' = [lines EXCEPT ![k] = SubSeq(@, n + 1, Len(@))]
  /\ session' = [c \in Session |-> IF c \in Refused(k, n) THEN Gone(session[c])
                                   ELSE IF c \in on THEN Continues(session[c], TRUE) ELSE session[c]]
  /\ _claimed' = _claimed \cup {session[c].modem : c \in at("claim")}
  /\ \E kept \in [Modem -> Session \cup {Nil}] :
       /\ _handles' = kept
       /\ \A m \in Modem : LET new == {c \in at("info") : session[c].modem = m} IN
            kept[m] \in IF new = {} THEN {_handles[m]} ELSE new
  /\ owed' = [c \in Session |->
       IF c \in at("subscribe")
       THEN Cardinality({i \in n + 1..Len(lines[k]) :
                           lines[k][i].kind # "answer" /\ lines[k][i].of = session[c].modem})
       ELSE IF session[c].via = k THEN owed[c] - Cardinality({i \in 1..n : Reaches(c, lines[k][i])})
       ELSE owed[c]]
  /\ disposal' = IF Released(k, n) THEN [disposal EXCEPT !.await = "none"] ELSE disposal
  /\ UNCHANGED <<_client, link, daemonSide, refused, toolkit>>

(* What is left of the process: sockets that the kernel closes.            *)
Ends(k) == IF link[k] \in {"up", "opening"} THEN "ended" ELSE link[k]
Unread(k) == [lines EXCEPT ![k] = <<>>]
Crashes(k, n) ==
  /\ link[k] = "up" /\ n <= Len(lines[k]) /\ crashed' = TRUE
  /\ \E c \in Session, i \in 1..n : session[c].via = k /\ Throws(c, lines[k][i])
  /\ link' = [j \in Session |-> Ends(j)]
  /\ session' = [c \in Session |-> IF session[c].pc = "idle" THEN session[c] ELSE Gone(session[c])]
  /\ lines' = [j \in Session |-> <<>>]
  /\ UNCHANGED <<backend, disposal, daemonSide, handles>>

(* The daemon ends the connection, or it breaks: `close' rejects what is   *)
(* pending, and the backend keeps its client.                              *)
LinkBreaks(k) ==
  /\ link[k] = "up" /\ link' = [link EXCEPT ![k] = "ended"]
  /\ session' = [c \in Session |->
       IF session[c].via = k /\ session[c].await # "none" THEN Gone(session[c]) ELSE session[c]]
  /\ disposal' = IF disposal.via = k THEN [disposal EXCEPT !.await = "none"] ELSE disposal
  /\ lines' = Unread(k)
  /\ UNCHANGED <<backend, daemonSide, handles>>

-----------------------------------------------------------------------------
(* The handle.                                                             *)

(* A service of the handle is a call over its client, for its device, and  *)
(* a closed handle still calls; what it is for, getModemFor() gives out.   *)
GivenOut(k, m) == MayHold(k, m)
Uses(c) ==
  LET s == session[c] IN
  /\ s.pc \in {"open", "closed"} /\ link[s.via] = "up" /\ s.via \in heeded
  /\ refused' = IF GivenOut(s.via, s.modem) THEN refused \ {c} ELSE refused \cup {c}
  /\ UNCHANGED <<backend, session, link, disposal, daemonSide, lines, owed, toolkit>>

(* The monitor's toolkit view comes and goes; the proxy it makes stays.    *)
ShowsToolkit(c, view) ==
  /\ c \in Viewer /\ session[c].pc = "open" /\ view \in (IF toolkit[c].view = "shown" THEN {"left"} ELSE {"shown"})
  /\ toolkit' = [toolkit EXCEPT ![c].view = view]
  /\ UNCHANGED <<backend, session, link, disposal, daemonSide, lines, owed, refused>>

(* The answer to 'stk.state', which the new proxy asks for, once.          *)
LearnsMenu(c) ==
  /\ toolkit[c].view # "none" /\ toolkit[c].menu = 0 /\ link[session[c].via] = "up"
  /\ toolkit' = [toolkit EXCEPT ![c].menu = 1 + menu[session[c].modem]]
  /\ UNCHANGED <<backend, session, link, disposal, daemonSide, lines, owed, refused>>

(* close(): the listeners go, the lease stays.                             *)
ClosesHandle(c) ==
  /\ session[c].pc = "open" /\ session' = [session EXCEPT ![c].pc = "closed"]
  /\ UNCHANGED <<backend, link, disposal, daemonSide, lines, handles>>

-----------------------------------------------------------------------------
(* dispose()                                                               *)

ClosedBy(kept) == [c \in Session |->
  IF session[c].pc = "open" /\ \E m \in Modem : kept[m] = c
  THEN [session[c] EXCEPT !.pc = "closed"] ELSE session[c]]

Disposes ==
  /\ disposal.pc = "none" /\ (Overlapping \/ \A c \in Session : ~Connecting(c))
  /\ session' = ClosedBy(_handles) /\ _handles' = [m \in Modem |-> Nil]
  /\ disposal' = IF _client = Nil THEN [disposal EXCEPT !.pc = "done"]
                 ELSE [disposal EXCEPT !.pc = "releasing", !.via = _client, !.left = _claimed]
  /\ UNCHANGED <<_client, _claimed, link, daemonSide, lines, handles>>

(* The next release is asked for, over a socket that is there.             *)
Releases(m) ==
  /\ disposal.pc = "releasing" /\ disposal.await = "none" /\ m \in disposal.left
  /\ disposal' = [disposal EXCEPT !.left = @ \ {m}, !.at = m,
                    !.await = IF link[disposal.via] = "up" THEN "sent" ELSE "none"]
  /\ UNCHANGED <<backend, session, link, daemonSide, lines, handles>>

ServesRelease ==
  LET m == disposal.at IN
  /\ disposal.await = "sent" /\ disposal.via \in heeded
  /\ holder' = IF MayHold(disposal.via, m) THEN [holder EXCEPT ![m] = Nil] ELSE holder
  /\ lines' = Sent(disposal.via, [kind |-> "answer", of |-> Nil, ok |-> TRUE])
  /\ disposal' = [disposal EXCEPT !.await = "served"]
  /\ UNCHANGED <<backend, session, link, heeded, subscribed, news, menu, handles>>

ReleaseTimesOut ==
  /\ disposal.await # "none" /\ disposal' = [disposal EXCEPT !.await = "none"]
  /\ UNCHANGED <<backend, session, link, daemonSide, lines, handles>>

(* Mutant: the client is forgotten, not disconnected.                      *)
LinksKept == link
(* disconnect()                                                            *)
LinksDropped == [link EXCEPT ![disposal.via] = Ends(disposal.via)]

Disposed ==
  /\ disposal.pc = "releasing" /\ disposal.await = "none" /\ disposal.left = {}
  /\ disposal' = [disposal EXCEPT !.pc = "done"]
  /\ _claimed' = {} /\ _client' = Nil /\ link' = LinksDropped
  /\ session' = [c \in Session |->
       IF session[c].via = disposal.via /\ session[c].await # "none" THEN Gone(session[c])
       ELSE session[c]]
  /\ lines' = Unread(disposal.via)
  /\ UNCHANGED <<_handles, daemonSide, handles>>

-----------------------------------------------------------------------------
RemoteStep ==
  \/ \E c \in Session :
       \/ \E m \in Modem, wants \in SUBSET {"target", "exclusive"} : Begins(c, m, wants)
       \/ ClientConnects(c) \/ ClientFails(c) \/ ConnectTimesOut(c)
       \/ \E ok \in BOOLEAN : ServesConnect(c, ok)
       \/ \E n \in 1..MaxBatch : Reads(c, n)
       \/ LinkBreaks(c) \/ Uses(c)
       \/ \E view \in {"shown", "left"} : ShowsToolkit(c, view)
       \/ LearnsMenu(c) \/ ClosesHandle(c)
  \/ \E m \in Modem, kind \in {"menu", "fault"} : Forwards(m, kind)
  \/ \E m \in Modem : RivalActs(m) \/ Releases(m)
  \/ Disposes \/ ServesRelease \/ ReleaseTimesOut \/ Disposed

RemoteNext ==
  \/ ~crashed /\ RemoteStep /\ UNCHANGED crashed
  \/ ~crashed /\ \E c \in Session, n \in 1..MaxBatch : Crashes(c, n)
  \/ \E k \in Session : SeesClose(k) /\ UNCHANGED crashed

(* A socket's own verdict, the timers, the loop of dispose() and the       *)
(* daemon's `close' events all come.  None of them recurs for ever, so it  *)
(* is enough that one of those which can come does.                        *)
Comes ==
  /\ \/ \E k \in Session : SeesClose(k)
     \/ /\ ~crashed
        /\ \/ \E c \in Session : ClientConnects(c) \/ ClientFails(c) \/ ConnectTimesOut(c)
           \/ ReleaseTimesOut \/ Disposed \/ \E m \in Modem : Releases(m)
  /\ UNCHANGED crashed
RemoteFairness == WF_remoteVars(Comes)

RemoteSpec == RemoteInit /\ [][RemoteNext]_remoteVars /\ RemoteFairness

-----------------------------------------------------------------------------
(* Properties                                                              *)

RemoteTypeOK ==
  /\ _client \in Session \cup {Nil} /\ _claimed \subseteq Modem
  /\ _handles \in [Modem -> Session \cup {Nil}]
  /\ \A c \in Session :
       /\ session[c].via \in Session \cup {Nil} /\ session[c].modem \in Modem \cup {Nil}
       /\ session[c].await # "none" => Connecting(c) /\ session[c].via # Nil
  /\ link \in [Session -> {"none", "opening", "up", "ended"}]
  /\ holder \in [Modem -> Session \cup {Nil, "rival"}]
  /\ heeded \subseteq Session /\ subscribed \subseteq Session \X Modem
  /\ owed \in [Session -> 0..MaxNews] /\ refused \subseteq Session /\ crashed \in BOOLEAN

(* While an exclusive connection is open and its socket is up, the daemon  *)
(* keeps the device for it: nobody else holds the lease, and no call of    *)
(* its services is refused (connect(), claim() against the other clients). *)
ExclusiveHeld ==
  \A c \in Session :
    session[c].pc = "open" /\ "exclusive" \in session[c].wants /\ link[session[c].via] = "up" =>
      holder[session[c].modem] = session[c].via /\ c \notin refused

(* A handle emits, once each, the events of its device that were sent      *)
(* after it was wired, and no other device's: what it has not emitted yet  *)
(* is what is on the way.                                                  *)
HeardOnce ==
  \A c \in Session :
    LET via == session[c].via IN
    session[c].pc = "open" /\ link[via] = "up" =>
      owed[c] = Cardinality({i \in DOMAIN lines[via] :
        lines[via][i].kind # "answer" /\ lines[via][i].of = session[c].modem})

(* Once dispose() has returned the process holds nothing: no handle is     *)
(* open or kept, no socket of its own is up, and what the daemon still     *)
(* keeps for it belongs to connections it will see closed.                 *)
DisposedHoldsNothing ==
  disposal.pc = "done" =>
    /\ _claimed = {} /\ \A m \in Modem : _handles[m] = Nil
    /\ \A c \in Session : session[c].pc # "open" /\ link[c] # "up"
    /\ \A m \in Modem : holder[m] \in Session => holder[m] \in heeded
    /\ \A p \in subscribed : p[1] \in heeded

(* connect() settles and dispose() returns, by their timers alone; and the *)
(* daemon comes to keep no lease and no subscription for a process that    *)
(* has disposed of its backend, or is gone.                                *)
RemoteSettles ==
  []<> /\ ~\E c \in Session : Connecting(c)
       /\ disposal.pc # "releasing" \/ crashed
       /\ disposal.pc = "done" \/ crashed =>
            subscribed = {} /\ \A m \in Modem : holder[m] \notin Session

-----------------------------------------------------------------------------
(* What the repository says and the code does not do; no run expects it.   *)

(* remote.ts: "A forwarded modem error must never crash the CLI".  The     *)
(* toolkit's proxy outlives its view, and an error of it is emitted there  *)
(* whether or not anybody listens.                                         *)
ErrorsNeverCrash == ~crashed

(* remote.ts: "STK state is updated via daemon events".  The events are    *)
(* emitted; the menu stays as it was first told.                           *)
MenuIsLatest ==
  \A c \in Session :
    session[c].pc = "open" /\ link[session[c].via] = "up" /\ lines[session[c].via] = <<>>
      /\ toolkit[c].menu # 0 => toolkit[c].menu = 1 + menu[session[c].modem]

(* The lease is for the lifetime of a connection: a connect() that was     *)
(* rejected leaves none.  The code gives it back in dispose() only.        *)
RejectedHoldsNothing ==
  \A c \in Session : session[c].pc = "rejected" =>
    session[c].modem \notin _claimed \/ \E o \in Session : session[o].pc = "open" /\ session[o].modem = session[c].modem
=============================================================================
