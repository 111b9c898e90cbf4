------------------------------ MODULE Lifecycle ------------------------------
(***************************************************************************)
(* The lifecycle of a Huawei modem (lifecycle/ and the layers under        *)
(* vendor/huawei): the composed graph of its states, the cheapest way      *)
(* through it, the detectors, and navigate(), which detects, plans, takes  *)
(* one step and begins again, while the device lands where it likes and    *)
(* the user plugs and unplugs it.                                          *)
(***************************************************************************)
EXTENDS Integers, Sequences, FiniteSets, FiniteSetsExt, SequencesExt

CONSTANTS
  ModelLayers,  \* whether extraLayers holds the layers of the models
  MaxSteps,     \* options.maxSteps
  MaxNavigates, \* bound: calls of navigateTo()
  MaxPlugs      \* bound: what the user does with the plug

ASSUME LifecycleAssumption ==
  ModelLayers \in BOOLEAN /\ MaxSteps \in Nat \ {0} /\ MaxNavigates \in Nat /\ MaxPlugs \in Nat

Nobody == "nobody"

-----------------------------------------------------------------------------
(* The graph: compose() of the layers.                                     *)

Refines ==
  [s \in {"absent", "storage", "modem", "download", "emergency", "hilink_only", "hilink_at",
          "stick", "balong_download"} |->
     CASE s \in {"hilink_only", "hilink_at", "stick"} -> "modem"
       [] s = "balong_download" -> "download"
       [] OTHER -> Nobody]
States == DOMAIN Refines

GenericEdges ==
  {<<"absent", "storage", 100, "manual">>, <<"absent", "modem", 100, "manual">>,
   <<"storage", "modem", 5, "auto">>}
  \cup {<<s, "absent", 100, "manual">> : s \in {"modem", "storage", "download", "emergency"}}
HuaweiEdges ==
  {<<"storage", "hilink_at", 5, "auto">>, <<"storage", "stick", 5, "auto">>,
   <<"hilink_only", "storage", 10, "auto">>}
BalongEdges ==
  {<<"hilink_at", "balong_download", 5, "auto">>, <<"stick", "balong_download", 5, "auto">>,
   <<"balong_download", "storage", 50, "auto">>}
ModelEdges == {<<"storage", "hilink_at", 5, "auto">>, <<"storage", "hilink_only", 5, "auto">>}
LayerNames == <<"generic", "huawei", "balong", "qualcomm">>
              \o (IF ModelLayers THEN <<"e3372", "e8372">> ELSE <<>>)
\* An edge of a later layer replaces the one between the same two states; here
\* they only agree.
Edges == GenericEdges \cup HuaweiEdges \cup BalongEdges
         \cup (IF ModelLayers THEN ModelEdges ELSE {})

\* isRefinementOf, isAtTarget: refinement is one level deep in every layer.
isAtTarget(state, target) == state = target \/ Refines[state] = target

\* findPath, Dijkstra: the nearest state not visited yet, the first in the queue
\* of equals, until the target is the nearest.  dist and prev are labels: a state,
\* its cost, the edge it was reached by.  The result is every outcome the order
\* of the queue could have.
Search(from, to, manual) ==
  LET open(g) == {l \in g.labels : l.at \notin g.visited}
      nearest(g) == {l \in open(g) : \A m \in open(g) : l.cost <= m.cost}
      reached(l) == {[at |-> e[2], cost |-> l.cost + e[3], by |-> e] :
                       e \in {f \in Edges : f[1] = l.at /\ (manual \/ f[4] = "auto")}}
      better(g, l) == {m \in reached(l) : \A n \in g.labels : n.at = m.at => m.cost < n.cost}
      visit(g, l) ==
        [visited |-> g.visited \cup {l.at},
         labels |-> {m \in g.labels : \A n \in better(g, l) : m.at # n.at} \cup better(g, l)]
      after[k \in 0..Cardinality(States)] ==
        IF k = 0 THEN {[labels |-> {[at |-> from, cost |-> 0, by |-> <<>>]}, visited |-> {}]}
        ELSE UNION {IF to \in g.visited \/ open(g) = {} THEN {g}
                    ELSE {visit(g, l) : l \in nearest(g)} : g \in after[k - 1]}
  IN {g.labels : g \in after[Cardinality(States)]}

\* reconstructPath: the edges by which a state was reached, the first one first.
PathTo(labels, to) ==
  LET by(s) == (CHOOSE l \in labels : l.at = s).by
      back(path) == by(IF path = <<>> THEN to ELSE path[1][1])
      paths[k \in Nat] == \* the last k edges
        IF k = 0 THEN {<<>>}
        ELSE {IF back(p) = <<>> THEN p ELSE <<back(p)>> \o p : p \in paths[k - 1]}
  IN CHOOSE p \in paths[Cardinality(States)] : TRUE

NoPath == <<Nobody>>
\* Where the way may end: the target, or the nearest state that refines it.
\* Mutant: any state that refines the target will do, near or far.
AnyEnd(labels, to) == {l \in labels : isAtTarget(l.at, to)}
Ends(labels, to) ==
  LET itself == {l \in labels : l.at = to}
      refined == {l \in labels : isAtTarget(l.at, to)}
  IN IF itself # {} THEN itself
     ELSE {l \in refined : \A m \in refined : l.cost <= m.cost}
\* findPath: nothing to do, no way, or the edges to take.
findPath(from, to, manual) ==
  IF isAtTarget(from, to) THEN {<<>>}
  ELSE UNION {IF Ends(labels, to) = {} THEN {NoPath}
              ELSE {PathTo(labels, l.at) : l \in Ends(labels, to)} :
                labels \in Search(from, to, manual)}

-----------------------------------------------------------------------------
(* What the probe shows, and the detectors.                                *)

\* What the device can be, and its probe: whether its mode was classified, its
\* product, how many interfaces the scan saw and whether one is a CDC modem's
\* or a disk's.
Device ==
  [absent      |-> [mode |-> Nobody, product |-> Nobody, count |-> 0, class |-> Nobody],
   storage     |-> [mode |-> "storage", product |-> "cdrom", count |-> 1, class |-> "disk"],
   hilink_only |-> [mode |-> "http", product |-> "e8372_hilink", count |-> 2, class |-> "cdc"],
   hilink_at   |-> [mode |-> "modem-usb", product |-> "e8372_at", count |-> 4, class |-> "cdc"],
   stick       |-> [mode |-> "modem-usb", product |-> "e3372_stick", count |-> 4, class |-> "cdc"],
   balong      |-> [mode |-> "modem-usb", product |-> "1c05", count |-> 5, class |-> "cdc"],
   qualcomm    |-> [mode |-> "modem-usb", product |-> "1c05", count |-> 3, class |-> Nobody],
   unclassed   |-> [mode |-> Nobody, product |-> "new", count |-> 2, class |-> "cdc"],
   plain_disk  |-> [mode |-> Nobody, product |-> "new", count |-> 1, class |-> "disk"],
   download    |-> [mode |-> "download", product |-> "boot", count |-> 1, class |-> Nobody],
   emergency   |-> [mode |-> "emergency", product |-> "boot", count |-> 1, class |-> Nobody],
   silent      |-> [mode |-> Nobody, product |-> "new", count |-> 0, class |-> Nobody]]

\* GENERIC_DETECTORS and HUAWEI_DETECTORS, in the order the definition lists
\* them: state, layer, and the devices they match.
Detectors ==
  LET matching(P(_)) == {d \in DOMAIN Device : d # "absent" /\ P(Device[d])}
  IN << <<"absent", "generic", {"absent"}>>,
        <<"storage", "generic", matching(LAMBDA p : p.mode = "storage")>>,
        <<"modem", "generic", matching(LAMBDA p : p.mode \in {"modem-usb", "http", "serial"})>>,
        <<"download", "generic", matching(LAMBDA p : p.mode = "download")>>,
        <<"emergency", "generic", matching(LAMBDA p : p.mode = "emergency")>>,
        <<"modem", "generic", matching(LAMBDA p : p.mode = Nobody /\ p.class = "cdc")>>,
        <<"storage", "generic", matching(LAMBDA p : p.mode = Nobody /\ p.class = "disk")>>,
        <<"hilink_at", "e8372", matching(LAMBDA p : p.product = "e8372_at")>>,
        <<"hilink_only", "e8372", matching(LAMBDA p : p.product = "e8372_hilink")>>,
        <<"stick", "e3372", matching(LAMBDA p : p.product = "e3372_stick")>>,
        <<"stick", "balong", matching(LAMBDA p : p.product = "1c05" /\ p.count >= 4
                                                 /\ p.class = "cdc")>>,
        <<"balong_download", "balong", matching(LAMBDA p : p.mode = "download")>>,
        <<"stick", "qualcomm", matching(LAMBDA p : p.product = "1c05" /\ p.count \in 1..3)>> >>

\* detectState: the detectors by the place of their layer, the last first and a
\* layer that is not composed with the first; the sort keeps equals in order.
Priority(layer) ==
  LET at == {k \in DOMAIN LayerNames : LayerNames[k] = layer}
  IN IF at = {} THEN 1 ELSE Max(at)
Matching == [d \in DOMAIN Device |-> {k \in DOMAIN Detectors : d \in Detectors[k][3]}]
Detected ==
  [d \in DOMAIN Device |->
     LET top == Max({Priority(Detectors[k][2]) : k \in Matching[d]})
     IN IF Matching[d] = {} THEN 0
        ELSE Min({k \in Matching[d] : Priority(Detectors[k][2]) = top})]

-----------------------------------------------------------------------------
VARIABLES
  device,   \* what the device is
  switched, \* where a switch out of storage takes this one
  nav,      \* the call of navigateTo() under way, or none
  answers,  \* the last call's result
  navigates, plugs \* bounds: calls and what the user did

lifeVars == <<device, switched, nav, answers, navigates, plugs>>
NoNav == [at |-> "none", target |-> Nobody, manual |-> FALSE, steps |-> 0, edge |-> <<>>]
NoAnswer == [ok |-> FALSE, why |-> Nobody, seen |-> 0]

LifeInit ==
  /\ device \in {"absent", "storage", "hilink_only", "stick", "qualcomm", "silent"}
  /\ switched \in {"hilink_at", "hilink_only", "stick"}
  /\ nav = NoNav /\ answers = NoAnswer /\ navigates = 0 /\ plugs = 0

NavigateTo(target, manual) ==
  /\ nav.at = "none" /\ navigates < MaxNavigates
  /\ nav' = [NoNav EXCEPT !.at = "detect", !.target = target, !.manual = manual]
  /\ answers' = NoAnswer /\ navigates' = navigates + 1
  /\ UNCHANGED <<device, switched, plugs>>

\* The edges that have an action: createHuaweiLifecycle.
Switches == {<<"storage", "hilink_at">>, <<"storage", "stick">>, <<"storage", "modem">>}
NotWired == {<<"hilink_at", "balong_download">>, <<"stick", "balong_download">>,
             <<"balong_download", "storage">>}
Actions == Switches \cup NotWired \cup {<<"hilink_only", "storage">>}

Answer(ok, why, seen) ==
  nav' = NoNav /\ answers' = [ok |-> ok, why |-> why, seen |-> seen]
\* One round of navigate(): a fresh probe, where it is, the way, its first edge.
Detect ==
  LET seen == Detected[device]
      state == Detectors[seen][1]
  IN /\ nav.at = "detect"
     /\ UNCHANGED <<device, switched, navigates, plugs>>
     /\ IF nav.steps = MaxSteps THEN Answer(FALSE, "too many steps", seen)
        ELSE IF seen = 0 THEN Answer(FALSE, "not recognised", 0)
        ELSE IF isAtTarget(state, nav.target) THEN Answer(TRUE, "arrived", seen)
        ELSE \E path \in findPath(state, nav.target, nav.manual) :
               IF path = NoPath THEN Answer(FALSE, "no path", seen)
               ELSE IF <<path[1][1], path[1][2]>> \notin Actions
               THEN Answer(FALSE, "no action", seen)
               ELSE nav' = [nav EXCEPT !.at = "execute", !.edge = path[1]] /\ UNCHANGED answers

\* The action of an edge: a switch sends the device where it goes and waits
\* until it is back; what is not wired throws, and navigateTo() rejects.
Execute ==
  LET key == <<nav.edge[1], nav.edge[2]>>
      goesOn == nav' = [nav EXCEPT !.at = "detect", !.steps = @ + 1] /\ UNCHANGED answers
  IN /\ nav.at = "execute"
     /\ \/ /\ key \in Switches /\ device = "storage"
           /\ device' = switched /\ goesOn
        \/ /\ key = <<"hilink_only", "storage">> /\ device = "hilink_only"
           /\ device' \in {"storage", "hilink_at"} /\ goesOn
        \/ UNCHANGED device /\ Answer(FALSE, "rejected", 0)
     /\ UNCHANGED <<switched, navigates, plugs>>

\* The user, at any time.
Plug(d) ==
  /\ plugs < MaxPlugs /\ plugs' = plugs + 1
  /\ device' = IF device = "absent" THEN d ELSE "absent"
  /\ UNCHANGED <<switched, nav, answers, navigates>>

LifeNext ==
  \/ \E target \in States \ {"absent"}, manual \in BOOLEAN : NavigateTo(target, manual)
  \/ Detect \/ Execute
  \/ \E d \in {"storage", "balong", "download", "emergency", "unclassed", "plain_disk"} : Plug(d)
LifeFairness == WF_lifeVars(Detect) /\ WF_lifeVars(Execute)
LifeSpec == LifeInit /\ [][LifeNext]_lifeVars /\ LifeFairness

-----------------------------------------------------------------------------
\* What every way from a state costs and where it ends: what Dijkstra's search is
\* measured with.
Infinite == 500
Ways ==
  [manual \in BOOLEAN |-> [from \in States |->
     LET longer(w) == {<<e[2], w[2] + e[3]>> :
                         e \in {f \in Edges : /\ f[1] = w[1] /\ w[2] < Infinite
                                              /\ manual \/ f[4] = "auto"}}
         ways[k \in 0..Cardinality(States)] ==
           IF k = 0 THEN {<<from, 0>>} ELSE UNION {{w} \cup longer(w) : w \in ways[k - 1]}
     IN ways[Cardinality(States)]]]
\* What it costs to be in the target: in it, or, when no way leads there, in a
\* state that refines it.
CostToTarget ==
  [r \in States \X States \X BOOLEAN |->
     LET least(s) == Min({Infinite} \cup {w[2] : w \in {v \in Ways[r[3]][r[1]] : v[1] = s}})
     IN IF least(r[2]) < Infinite THEN least(r[2])
        ELSE Min({least(s) : s \in {t \in States : isAtTarget(t, r[2])}})]

\* "Finds the cheapest path to the target", "Executes ONE transition, then loops
\* back" (navigator.ts:7-8): whatever state the device turns up in, the step
\* taken begins a cheapest way to the target, and navigate() says there is none
\* only when there is none.
EachStepIsCheapest ==
  [][nav.at = "detect" =>
       LET cost(state) == CostToTarget[<<state, nav.target, nav.manual>>]
           state == Detectors[Detected[device]][1]
       IN /\ nav'.at = "execute" => cost(state) = nav'.edge[3] + cost(nav'.edge[2])
          /\ answers'.why = "no path" /\ answers.why # "no path" =>
               cost(state) >= Infinite]_lifeVars

\* Every navigateTo() comes to an end, however often the device lands somewhere
\* else: maxSteps bounds the rounds, the actions bound their waits.
NavigationEnds == (nav.at # "none") ~> (nav.at = "none")

\* "Tries detectors in reverse layer order (most specific first)"
\* (lifecycle/detector.ts:31): a device that a detector of a platform or a model
\* knows is not taken for its generic state.
SpecificFirst ==
  answers.seen # 0 /\ Detectors[answers.seen][2] = "generic" =>
    \A d \in DOMAIN Device :
      Detected[d] = answers.seen =>
        \A k \in Matching[d] : Detectors[k][2] = "generic"
=============================================================================
