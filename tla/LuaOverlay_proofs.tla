-------------------------- MODULE LuaOverlay_proofs --------------------------
(***************************************************************************)
(* The overlay, for every task list of the server and every number of      *)
(* inputs: the window is what the mascot mode says, the flag that hides    *)
(* Refresh says that one refresh thread runs, and a click has its effect   *)
(* once and where it was meant.                                            *)
(***************************************************************************)
EXTENDS LuaOverlay, SequenceTheorems, TLAPS

WF == INSTANCE WellFoundedInduction

----------------------------------------------------------------------------
(* The window.                                                             *)

MascotFields == {"enabled", "alwaysOnTop", "fullscreen", "decorations", "level", "hittest",
                 "transparent", "alphaMap"}

\* A record of the switches; fullscreen is whatever the scripts asked for.
IsWindow(m) ==
  /\ m = [f \in MascotFields |-> m[f]]
  /\ m.enabled \in BOOLEAN /\ m.alwaysOnTop \in BOOLEAN /\ m.decorations \in BOOLEAN
  /\ m.hittest \in BOOLEAN /\ m.transparent \in BOOLEAN

\* WindowFollowsMascot of any record.
Follows(m) ==
  /\ IsWindow(m)
  /\ m.decorations = ~m.enabled
  /\ m.transparent = m.enabled
  /\ m.level = LevelFor(m.enabled /\ m.alwaysOnTop)
  /\ ~m.enabled => m.hittest

LEMMA ToggleFollows ==
  ASSUME NEW m, Follows(m)
  PROVE  Follows(Toggle(m))
<1>1. CASE m.enabled
  BY <1>1 DEF Follows, IsWindow, Toggle, Leave, LevelFor, MascotFields
<1>2. CASE ~m.enabled
  BY <1>2 DEF Follows, IsWindow, Toggle, Enter, LevelFor, MascotFields
<1> QED
  BY <1>1, <1>2

LEMMA ToggleAlwaysOnTopFollows ==
  ASSUME NEW m, Follows(m)
  PROVE  Follows(ToggleAlwaysOnTop(m))
BY DEF Follows, IsWindow, ToggleAlwaysOnTop, LevelFor, MascotFields

LEMMA RestoredFollows ==
  ASSUME NEW prefs, prefs.enabled \in BOOLEAN, prefs.alwaysOnTop \in BOOLEAN
  PROVE  Follows(Restored(prefs))
<1>1. Follows(PlainWindow(prefs))
  BY DEF Follows, IsWindow, PlainWindow, LevelFor, MascotFields
<1> QED
  BY <1>1, ToggleFollows DEF Restored

LEMMA AlphaMappedFollows ==
  ASSUME NEW m, Follows(m), NEW readBack \in BOOLEAN
  PROVE  Follows(AlphaMapped(m, readBack))
BY DEF Follows, IsWindow, AlphaMapped, LevelFor, MascotFields

LEMMA FullscreenFollows ==
  ASSUME NEW m, Follows(m), NEW v
  PROVE  Follows([m EXCEPT !.fullscreen = v])
BY DEF Follows, IsWindow, LevelFor, MascotFields

\* Every way to the mascot record, of a frame and between two frames.
LEMMA WindowStep == Follows(mascot) /\ [OverlayNext]_overlayVars => Follows(mascot)'
<1> SUFFICES ASSUME Follows(mascot), [OverlayNext]_overlayVars
             PROVE  Follows(mascot')
  BY DEF Follows, IsWindow
<1>1. CASE FinishFrame
  <2>1. Follows(TakenOver(mascot))
    <3>1. Follows(IF requested.onTop # mascot.alwaysOnTop THEN ToggleAlwaysOnTop(mascot) ELSE mascot)
      BY ToggleAlwaysOnTopFollows
    <3> QED
      BY <3>1, FullscreenFollows DEF TakenOver
  <2>2. PICK readBack \in BOOLEAN :
          mascot' = AlphaMapped(IF requested.mascot # mascot.enabled THEN Toggle(TakenOver(mascot))
                                ELSE TakenOver(mascot), readBack)
    BY <1>1 DEF FinishFrame
  <2>3. Follows(IF requested.mascot # mascot.enabled THEN Toggle(TakenOver(mascot))
                ELSE TakenOver(mascot))
    BY <2>1, ToggleFollows
  <2> QED
    BY <2>2, <2>3, AlphaMappedFollows
<1>2. CASE WindowEvent
  <2>1. CASE PressM
    BY <2>1, ToggleFollows DEF PressM, KeyM
  <2>2. CASE PressF
    BY <2>2, ToggleAlwaysOnTopFollows DEF PressF, KeyF
  <2>3. CASE Cursor
    <3>1. PICK over \in BOOLEAN : mascot.enabled /\ mascot' = [mascot EXCEPT !.hittest = over]
      BY <2>3 DEF Cursor, MoveCursor
    <3> QED
      BY <3>1 DEF Follows, IsWindow, LevelFor, MascotFields
  <2>4. CASE PressF1 \/ Wheel
    BY <2>4 DEF PressF1, Wheel
  <2> QED
    BY <1>2, <2>1, <2>2, <2>3, <2>4 DEF WindowEvent
<1>3. CASE Restart
  BY <1>3, RestoredFollows DEF Restart, Follows, IsWindow
<1>4. CASE DrawFrame \/ ThreadRuns \/ ListEdited \/ UNCHANGED overlayVars
  BY <1>4 DEF DrawFrame, ThreadRuns, ListEdited, overlayVars
<1> QED
  BY <1>1, <1>2, <1>3, <1>4 DEF OverlayNext

\* Keys, scripts, cursor and restart leave the window as the mode says.
THEOREM WindowIsRight == OverlaySpec => []WindowFollowsMascot
<1>1. OverlayInit => Follows(mascot)
  <2> SUFFICES ASSUME OverlayInit PROVE Follows(mascot)
    OBVIOUS
  <2>1. PICK on, top, full \in BOOLEAN :
          mascot = Restored([enabled |-> on, alwaysOnTop |-> top, fullscreen |-> full])
    BY DEF OverlayInit
  <2>2. Follows(Restored([enabled |-> on, alwaysOnTop |-> top, fullscreen |-> full]))
    BY RestoredFollows
  <2> QED
    BY <2>1, <2>2
<1>2. Follows(mascot) => WindowFollowsMascot
  BY DEF Follows, WindowFollowsMascot
<1> QED
  BY <1>1, <1>2, WindowStep, PTL DEF OverlaySpec

----------------------------------------------------------------------------
(* Bags.                                                                   *)

LEMMA BagRemoveEffect ==
  ASSUME NEW B, IsABag(B), NEW t \in DOMAIN B
  PROVE  /\ IsABag(BagRemove(B, t))
         /\ DOMAIN BagRemove(B, t) \subseteq DOMAIN B
         /\ B[t] = 1 => t \notin DOMAIN BagRemove(B, t)
         /\ \A u \in DOMAIN B \ {t} : u \in DOMAIN BagRemove(B, t) /\ BagRemove(B, t)[u] = B[u]
BY DEF IsABag, BagRemove

LEMMA BagAddEffect ==
  ASSUME NEW B, IsABag(B), NEW t
  PROVE  /\ IsABag(BagAdd(B, t))
         /\ DOMAIN BagAdd(B, t) = DOMAIN B \cup {t}
         /\ t \notin DOMAIN B => BagAdd(B, t)[t] = 1
         /\ \A u \in DOMAIN B \ {t} : BagAdd(B, t)[u] = B[u]
BY DEF IsABag, BagAdd

----------------------------------------------------------------------------
(* Sequences of sequences.                                                 *)

\* The least element of a set of numbers, without an operator for a parameter.
LEMMA Least ==
  ASSUME NEW T \in SUBSET Nat, T # {}
  PROVE  \E n \in T : \A m \in T : n <= m
<1> DEFINE Less == {ss \in Nat \X Nat : ss[1] < ss[2]}
<1>1. WF!IsWellFoundedOn(Less, Nat)
  BY WF!NatLessThanWellFounded DEF WF!OpToRel
<1> HIDE DEF Less
<1>2. PICK n \in T : \A m \in T : ~(<<m, n>> \in Less)
  BY <1>1, WF!WFMin
<1>3. \A m \in T : <<m, n>> \in Nat \X Nat /\ m \in Nat /\ n \in Nat
  OBVIOUS
<1>4. \A m \in T : ~(m < n)
  BY <1>2, <1>3 DEF Less
<1> QED
  BY <1>3, <1>4

\* The equation of the function in FlattenSeq, for the first n sequences.
Flattens(f, ss, n) == f = [i \in 1..n |-> IF i = 1 THEN ss[i] ELSE f[i - 1] \o ss[i]]

Concatenates(f, ss, n) ==
  \A i \in 1..n : (i = 1 => f[i] = ss[i]) /\ (i # 1 => f[i] = f[i - 1] \o ss[i])

LEMMA FlattensAt == \A ss, n, f : Flattens(f, ss, n) => Concatenates(f, ss, n)
BY DEF Flattens, Concatenates

\* Its values are sequences.
LEMMA FlattensSeq ==
  ASSUME NEW S, NEW n \in Nat, NEW ss \in [1..n -> Seq(S)], NEW f, Flattens(f, ss, n)
  PROVE  f \in [1..n -> Seq(S)]
<1> DEFINE Bad == {i \in 1..n : f[i] \notin Seq(S)}
<1>1. DOMAIN f = 1..n /\ f = [i \in 1..n |-> f[i]]
  BY DEF Flattens
<1>2. SUFFICES ASSUME Bad # {} PROVE FALSE
  BY <1>1
<1>3. Bad \in SUBSET Nat
  OBVIOUS
<1>4. PICK i \in Bad : \A j \in Bad : i <= j
  <2> HIDE DEF Bad
  <2> QED
    BY <1>2, <1>3, Least
<1>5. i \in 1..n /\ ss[i] \in Seq(S) /\ f[i] \notin Seq(S)
  BY <1>4
<1>6. (i = 1 => f[i] = ss[i]) /\ (i # 1 => f[i] = f[i - 1] \o ss[i])
  <2>1. Concatenates(f, ss, n)
    BY FlattensAt
  <2> QED
    BY <1>5, <2>1 DEF Concatenates
<1>7. i # 1 /\ f[i] = f[i - 1] \o ss[i]
  BY <1>5, <1>6
<1>8. i - 1 \in 1..n /\ i - 1 \notin Bad
  BY <1>4, <1>5, <1>7
<1>9. f[i - 1] \in Seq(S)
  BY <1>8
<1> QED
  BY <1>5, <1>7, <1>9, ConcatProperties

\* It has a solution for every number of sequences.
LEMMA FlattenExists ==
  ASSUME NEW S, NEW n \in Nat, NEW ss \in [1..n -> Seq(S)]
  PROVE  \E f : Flattens(f, ss, n)
<1> DEFINE Solved(m) == \E f : Flattens(f, ss, m)
           Bad == {m \in 0..n : ~Solved(m)}
<1> HIDE DEF Solved
<1>1. SUFFICES ASSUME Bad # {} PROVE FALSE
  <2>1. n \in 0..n
    OBVIOUS
  <2>2. Bad = {} => Solved(n)
    BY <2>1
  <2> QED
    BY <2>2 DEF Solved
<1>2. Bad \in SUBSET Nat
  OBVIOUS
<1>3. PICK m \in Bad : \A k \in Bad : m <= k
  <2> HIDE DEF Bad
  <2> QED
    BY <1>1, <1>2, Least
<1>4. m \in 0..n
  OBVIOUS
<1>5. m # 0
  <2>1. Flattens([i \in 1..0 |-> 0], ss, 0)
    BY DEF Flattens
  <2> QED
    BY <1>3, <2>1 DEF Solved
<1>6. m - 1 \in 0..n /\ m - 1 \notin Bad
  BY <1>3, <1>4, <1>5
<1>7. PICK f : Flattens(f, ss, m - 1)
  BY <1>6 DEF Solved
<1> DEFINE g == [i \in 1..m |-> IF i < m THEN f[i] ELSE IF m = 1 THEN ss[1] ELSE f[m - 1] \o ss[m]]
           h == [i \in 1..m |-> IF i = 1 THEN ss[i] ELSE g[i - 1] \o ss[i]]
<1>8. ASSUME NEW i \in 1..m
      PROVE  g[i] = h[i]
  <2>1. CASE i < m
    <3>1. i \in 1..m - 1 /\ g[i] = f[i]
      BY <1>4, <2>1
    <3>2. (i = 1 => f[i] = ss[i]) /\ (i # 1 => f[i] = f[i - 1] \o ss[i])
      <4>1. Concatenates(f, ss, m - 1)
        BY <1>7, FlattensAt
      <4> QED
        BY <3>1, <4>1 DEF Concatenates
    <3>3. i # 1 => g[i - 1] = f[i - 1]
      BY <1>4, <2>1
    <3> QED
      BY <3>1, <3>2, <3>3
  <2>2. CASE i = m
    <3>1. m # 1 => g[m - 1] = f[m - 1]
      BY <1>4, <1>5
    <3> QED
      BY <2>2, <3>1
  <2> QED
    BY <1>4, <2>1, <2>2
<1>9. g = h
  BY <1>8
<1>10. Flattens(g, ss, m)
  <2> HIDE DEF g
  <2> QED
    BY <1>9 DEF Flattens
<1> QED
  BY <1>3, <1>10 DEF Solved

\* FlattenSeq of sequences over S is one.
LEMMA FlattenType ==
  ASSUME NEW S, NEW ss \in Seq(Seq(S))
  PROVE  FlattenSeq(ss) \in Seq(S)
<1>1. CASE Len(ss) = 0
  <2>1. ss = <<>>
    BY <1>1
  <2> QED
    BY <1>1, <2>1 DEF FlattenSeq
<1>2. CASE Len(ss) # 0
  <2> DEFINE n == Len(ss)
             F == CHOOSE f : Flattens(f, ss, n)
  <2>1. FlattenSeq(ss) = F[n]
    BY <1>2 DEF FlattenSeq, Flattens
  <2>2. n \in Nat /\ ss \in [1..n -> Seq(S)] /\ n \in 1..n
    BY <1>2
  <2> HIDE DEF n
  <2>3. Flattens(F, ss, n)
    BY <2>2, FlattenExists
  <2> HIDE DEF F
  <2>4. F \in [1..n -> Seq(S)]
    BY <2>2, <2>3, FlattensSeq
  <2> QED
    BY <2>1, <2>2, <2>4
<1> QED
  BY <1>1, <1>2

----------------------------------------------------------------------------
(* The task list.                                                          *)

\* Beside LoadingMeansFetching: no refresh is asked for while one runs, for
\* its widget is not drawn then and the queue is emptied every frame.
TaskShape ==
  /\ server \in Lists
  /\ notion \in [tasks : TaskLists, loading : BOOLEAN, error : BOOLEAN]
  /\ IsABag(threads)
  /\ \A t \in DOMAIN threads :
       t.got \in TaskLists /\ (t.stage = "creating" => t.job.does = "child")
Queued == Refresh \in actions => ~notion.loading

TaskInv == TaskShape /\ Queued /\ LoadingMeansFetching

LEMMA ListsAreSequences ==
  ASSUME NEW list \in TaskLists
  PROVE  \E n \in Nat : DOMAIN list = 1..n
<1>1. CASE list \in Lists
  <2>1. list \in Seq({list[i] : i \in DOMAIN list})
    BY <1>1, NotionAssumption
  <2> DEFINE S == {list[i] : i \in DOMAIN list}
  <2> HIDE DEF S
  <2>2. list \in Seq(S) => \E n \in Nat : DOMAIN list = 1..n
    OBVIOUS
  <2> QED
    BY <2>1, <2>2 DEF S
<1>2. CASE list = <<>>
  <2>1. DOMAIN list = 1..0
    BY <1>2
  <2> QED
    BY <2>1
<1> QED
  BY <1>1, <1>2 DEF TaskLists

\* The widgets of the task list, from the state that they are drawn in.
TaskItem(text, row, does, id) ==
  Widget("Task List", Label(text, row), does, id, Returned(Label(text, row), FALSE))

TaskWidget(w) ==
  \/ ~notion.loading /\ w = TaskItem("Refresh", 0, "refresh", "any")
  \/ \E i \in DOMAIN notion.tasks : \/ w = TaskItem("##done", i, "complete", notion.tasks[i])
                                   \/ w = TaskItem("##subtask", i, "child", notion.tasks[i])

\* While the list is loading the script draws the rows of the tasks and
\* nothing else.
LEMMA TasksDrawn ==
  ASSUME notion.tasks \in TaskLists
  PROVE  /\ \E n \in Nat : DOMAIN RunTasks = 1..n
         /\ RunTasks \in Seq(ToSet(RunTasks))
         /\ \A w \in ToSet(RunTasks) : TaskWidget(w)
<1> DEFINE rows == [i \in DOMAIN notion.tasks |-> Row(i)]
           S == {w \in UNION {ToSet(Row(i)) : i \in DOMAIN notion.tasks} : TaskWidget(w)}
<1>1. ASSUME NEW i \in DOMAIN notion.tasks
      PROVE  Row(i) \in Seq(ToSet(Row(i))) /\ \A w \in ToSet(Row(i)) : TaskWidget(w)
  <2>1. CASE notion.tasks[i] \in completed
    <3>1. Row(i) = <<>> /\ ToSet(Row(i)) = {}
      BY <2>1 DEF Row, ToSet
    <3> QED
      BY <3>1
  <2>2. CASE notion.tasks[i] \notin completed
    <3> DEFINE done == TaskItem("##done", i, "complete", notion.tasks[i])
               sub == TaskItem("##subtask", i, "child", notion.tasks[i])
    <3>1. Row(i) = <<done, sub>>
      BY <2>2 DEF Row, TaskItem
    <3>2. TaskWidget(done) /\ TaskWidget(sub)
      BY DEF TaskWidget
    <3> HIDE DEF done, sub
    <3>3. ToSet(Row(i)) = {done, sub}
      BY <3>1 DEF ToSet
    <3> QED
      BY <3>1, <3>2, <3>3
  <2> QED
    BY <2>1, <2>2
<1>2. PICK n \in Nat : DOMAIN notion.tasks = 1..n
  BY ListsAreSequences
<1>3. ASSUME NEW i \in DOMAIN notion.tasks
      PROVE  Row(i) \in Seq(S)
  <2>1. ToSet(Row(i)) \subseteq S
    BY <1>1
  <2> HIDE DEF S
  <2> QED
    BY <1>1, <2>1, SeqMonotonic
<1>4. rows \in Seq(Seq(S))
  <2> HIDE DEF S
  <2>1. rows \in [1..n -> Seq(S)]
    BY <1>2, <1>3
  <2> QED
    BY <2>1
<1>5. FlattenSeq(rows) \in Seq(S)
  <2> HIDE DEF S, rows
  <2> QED
    BY <1>4, FlattenType
<1> DEFINE refresh == TaskItem("Refresh", 0, "refresh", "any")
           T == {w \in S \cup {refresh} : TaskWidget(w)}
<1>6. RunTasks = (IF notion.loading THEN <<>> ELSE <<refresh>>) \o FlattenSeq(rows)
  BY DEF RunTasks, TaskItem
<1>7. S \subseteq T /\ (~notion.loading => refresh \in T)
  BY DEF TaskWidget
<1>8. \A w \in T : TaskWidget(w)
  OBVIOUS
<1> HIDE DEF S, T, rows, refresh
<1>9. FlattenSeq(rows) \in Seq(T)
  BY <1>5, <1>7, SeqMonotonic
<1>10. RunTasks \in Seq(T)
  <2>1. (IF notion.loading THEN <<>> ELSE <<refresh>>) \in Seq(T)
    BY <1>7
  <2> QED
    BY <1>6, <1>9, <2>1, ConcatProperties
<1>11. PICK k \in Nat : DOMAIN RunTasks = 1..k /\ RunTasks \in [1..k -> T] /\ Len(RunTasks) = k
  BY <1>10
<1>12. \A w \in ToSet(RunTasks) : w \in T
  BY <1>11 DEF ToSet
<1>13. RunTasks \in [1..k -> ToSet(RunTasks)]
  BY <1>11 DEF ToSet
<1> QED
  BY <1>8, <1>11, <1>12, <1>13

LEMMA NoRefreshWhileLoading ==
  ASSUME notion.loading, notion.tasks \in TaskLists
  PROVE  Refresh \notin Asked
<1>1. SUFFICES ASSUME Refresh \in Asked PROVE FALSE
  OBVIOUS
<1>2. PICK w \in ToSet(RunTasks) : Refresh = [does |-> w.does, id |-> w.id]
  BY <1>1 DEF Asked
<1>3. w.does = "refresh" /\ TaskWidget(w)
  BY <1>2, TasksDrawn DEF Refresh
<1>4. \A text, row, does, id : TaskItem(text, row, does, id).does = does
  BY DEF TaskItem, Widget
<1> QED
  BY <1>3, <1>4 DEF TaskWidget

\* The threads of the jobs of a frame.
LEMMA JobsStart ==
  ASSUME TaskInv, FinishFrame
  PROVE  TaskInv'
<1> DEFINE jobs == {a \in actions : a.does # "complete"}
           firsts == {First(j) : j \in jobs}
<1>1. /\ threads' = threads (+) SetToBag(firsts)
      /\ notion' = IF Refresh \in jobs THEN [notion EXCEPT !.loading = TRUE, !.error = FALSE] ELSE notion
      /\ UNCHANGED server /\ actions' = {}
  BY DEF FinishFrame, StartJobs
<1>2. \A j \in jobs : /\ First(j).job = j /\ First(j).got = <<>>
                      /\ First(j).stage = "creating" => j.does = "child"
  BY DEF First, Thread
<1>3. /\ IsABag(threads') /\ DOMAIN threads' = DOMAIN threads \cup firsts
      /\ \A u \in firsts \ DOMAIN threads : threads'[u] = 1
      /\ \A u \in DOMAIN threads \ firsts : threads'[u] = threads[u]
  <2> HIDE DEF firsts
  <2> DEFINE more == threads (+) SetToBag(firsts)
  <2>1. IsABag(threads)
    BY DEF TaskInv, TaskShape
  <2>2. /\ IsABag(more) /\ DOMAIN more = DOMAIN threads \cup firsts
        /\ \A u \in firsts \ DOMAIN threads : more[u] = 1
        /\ \A u \in DOMAIN threads \ firsts : more[u] = threads[u]
    BY <2>1 DEF IsABag, SetToBag, (+)
  <2> HIDE DEF more
  <2>3. threads' = more
    BY <1>1 DEF more
  <2> QED
    BY <2>2, <2>3
<1>4. Refresh \in jobs => ~notion.loading
  BY DEF TaskInv, Queued
<1>5. \A t \in firsts : t.got = <<>> /\ (t.stage = "creating" => t.job.does = "child")
                         /\ (t.job = Refresh => Refresh \in jobs /\ t = First(Refresh))
  BY <1>2
<1>6. Refresh \in jobs => First(Refresh) \in firsts /\ First(Refresh).job = Refresh
  BY <1>2
<1> HIDE DEF firsts, jobs
<1>7. TaskShape'
  BY <1>1, <1>3, <1>5 DEF TaskInv, TaskShape, TaskLists
<1>8. LoadingMeansFetching'
  <2>1. CASE Refresh \in jobs
    <3>1. notion'.loading
      BY <1>1, <2>1 DEF TaskInv, TaskShape
    <3>2. \A t \in DOMAIN threads : t.job # Refresh
      BY <1>4, <2>1 DEF TaskInv, LoadingMeansFetching, BagToSet
    <3>3. {t \in DOMAIN threads' : t.job = Refresh} = {First(Refresh)} /\ threads'[First(Refresh)] = 1
      BY <1>3, <1>5, <1>6, <2>1, <3>2
    <3> QED
      BY <3>1, <3>3 DEF LoadingMeansFetching, BagToSet
  <2>2. CASE Refresh \notin jobs
    <3>1. UNCHANGED notion
      BY <1>1, <2>2
    <3>2. {t \in DOMAIN threads' : t.job = Refresh} = {t \in DOMAIN threads : t.job = Refresh}
      BY <1>3, <1>5, <2>2
    <3>3. \A t \in DOMAIN threads : t.job = Refresh => t \notin firsts /\ threads'[t] = threads[t]
      BY <1>3, <1>5, <2>2
    <3> QED
      BY <3>1, <3>2, <3>3 DEF TaskInv, LoadingMeansFetching, BagToSet
  <2> QED
    BY <2>1, <2>2
<1> QED
  BY <1>1, <1>7, <1>8 DEF TaskInv, Queued

\* A thread that goes on is still the thread of its job.
LEMMA ThreadGoesOn ==
  ASSUME TaskInv, NEW t \in DOMAIN threads, NEW stage, stage # "creating", NEW got \in TaskLists,
         Becomes(t, stage, got), UNCHANGED <<server, notion, actions>>
  PROVE  TaskInv'
<1> DEFINE u == Thread(t.job, stage, got)
           rest == BagRemove(threads, t)
<1>1. threads' = BagAdd(rest, u) /\ u.job = t.job /\ u.got = got /\ u.stage = stage
  BY DEF Becomes, Thread
<1>2. /\ IsABag(rest) /\ DOMAIN rest \subseteq DOMAIN threads
      /\ threads[t] = 1 => t \notin DOMAIN rest
      /\ \A x \in DOMAIN threads \ {t} : x \in DOMAIN rest /\ rest[x] = threads[x]
  BY BagRemoveEffect DEF TaskInv, TaskShape
<1> HIDE DEF u, rest
<1>3. /\ IsABag(threads') /\ DOMAIN threads' = DOMAIN rest \cup {u}
      /\ u \notin DOMAIN rest => threads'[u] = 1
      /\ \A x \in DOMAIN rest \ {u} : threads'[x] = rest[x]
  <2> DEFINE more == BagAdd(rest, u)
  <2>1. /\ IsABag(more) /\ DOMAIN more = DOMAIN rest \cup {u}
        /\ u \notin DOMAIN rest => more[u] = 1
        /\ \A x \in DOMAIN rest \ {u} : more[x] = rest[x]
    BY <1>2, BagAddEffect
  <2> HIDE DEF more
  <2>2. threads' = more
    BY <1>1 DEF more
  <2> QED
    BY <2>1, <2>2
<1>4. TaskShape'
  BY <1>1, <1>2, <1>3 DEF TaskInv, TaskShape
<1>5. LoadingMeansFetching'
  <2>1. CASE t.job = Refresh
    <3>1. notion.loading /\ threads[t] = 1 /\ \A x \in DOMAIN threads : x.job = Refresh => x = t
      BY <2>1 DEF TaskInv, LoadingMeansFetching, BagToSet
    <3>2. \A x \in DOMAIN rest : x.job # Refresh
      BY <1>2, <3>1
    <3>3. {x \in DOMAIN threads' : x.job = Refresh} = {u} /\ threads'[u] = 1
      BY <1>1, <1>3, <2>1, <3>2
    <3> QED
      BY <3>1, <3>3 DEF LoadingMeansFetching, BagToSet
  <2>2. CASE t.job # Refresh
    <3>1. {x \in DOMAIN threads' : x.job = Refresh} = {x \in DOMAIN threads : x.job = Refresh}
      BY <1>1, <1>2, <1>3, <2>2
    <3>2. \A x \in DOMAIN threads : x.job = Refresh => threads'[x] = threads[x]
      BY <1>1, <1>2, <1>3, <2>2
    <3> QED
      BY <3>1, <3>2 DEF TaskInv, LoadingMeansFetching, BagToSet
  <2> QED
    BY <2>1, <2>2
<1> QED
  BY <1>4, <1>5 DEF TaskInv, Queued

\* A thread that ends has said so, if it was the refresh.
LEMMA ThreadEnds ==
  ASSUME TaskInv, NEW t \in DOMAIN threads, Ends(t),
         UNCHANGED <<server, actions>>,
         notion' \in [tasks : TaskLists, loading : BOOLEAN, error : BOOLEAN],
         notion'.loading <=> notion.loading /\ t.job # Refresh
  PROVE  TaskInv'
<1> DEFINE rest == BagRemove(threads, t)
<1>1. /\ threads' = rest
      /\ IsABag(rest) /\ DOMAIN rest \subseteq DOMAIN threads
      /\ threads[t] = 1 => t \notin DOMAIN rest
      /\ \A x \in DOMAIN threads \ {t} : x \in DOMAIN rest /\ rest[x] = threads[x]
  BY BagRemoveEffect DEF TaskInv, TaskShape, Ends
<1> HIDE DEF rest
<1>2. TaskShape'
  BY <1>1 DEF TaskInv, TaskShape
<1>3. Queued'
  BY DEF TaskInv, Queued
<1>4. LoadingMeansFetching'
  <2>1. CASE t.job = Refresh
    <3>1. threads[t] = 1 /\ \A x \in DOMAIN threads : x.job = Refresh => x = t
      BY <2>1 DEF TaskInv, LoadingMeansFetching, BagToSet
    <3>2. {x \in DOMAIN threads' : x.job = Refresh} = {}
      BY <1>1, <3>1
    <3> QED
      BY <2>1, <3>2 DEF LoadingMeansFetching, BagToSet
  <2>2. CASE t.job # Refresh
    <3>1. {x \in DOMAIN threads' : x.job = Refresh} = {x \in DOMAIN threads : x.job = Refresh}
      BY <1>1, <2>2
    <3>2. \A x \in DOMAIN threads : x.job = Refresh => threads'[x] = threads[x]
      BY <1>1, <2>2
    <3>3. notion'.loading <=> notion.loading
      BY <2>2
    <3> QED
      BY <3>1, <3>2, <3>3 DEF TaskInv, LoadingMeansFetching, BagToSet
  <2> QED
    BY <2>1, <2>2
<1> QED
  BY <1>2, <1>3, <1>4 DEF TaskInv

LEMMA TaskStep == TaskInv /\ [OverlayNext]_overlayVars => TaskInv'
<1> SUFFICES ASSUME TaskInv, [OverlayNext]_overlayVars
             PROVE  TaskInv'
  OBVIOUS
<1>1. CASE DrawFrame
  <2>1. UNCHANGED <<server, notion, threads>>
    BY <1>1 DEF DrawFrame
  <2>2. UNCHANGED actions \/ actions' = actions \cup Asked
    BY <1>1 DEF DrawFrame, DrawNothing, DrawOnly, DrawAndClick, DrawSwitching, DrawAndClose, Draw
  <2>3. Queued'
    BY <2>1, <2>2, NoRefreshWhileLoading DEF TaskInv, TaskShape, Queued
  <2> QED
    BY <2>1, <2>3 DEF TaskInv, TaskShape, LoadingMeansFetching
<1>2. CASE FinishFrame
  BY <1>2, JobsStart
<1>3. CASE ThreadRuns
  <2>1. PICK t \in DOMAIN threads : CreatePage(t) \/ Fetch(t) \/ Publish(t)
    BY <1>3 DEF ThreadRuns, ThreadStep, BagToSet
  <2>2. UNCHANGED actions
    BY <1>3 DEF ThreadRuns, frameVars
  <2>3. <<>> \in TaskLists /\ server \in TaskLists /\ t.got \in TaskLists
    BY DEF TaskLists, TaskInv, TaskShape
  <2>4. ASSUME NEW stage, stage # "creating", NEW got \in TaskLists, Becomes(t, stage, got),
               UNCHANGED <<server, notion>>
        PROVE  TaskInv'
    BY <2>2, <2>4, ThreadGoesOn
  <2>5. CASE Ends(t) /\ UNCHANGED <<server, notion>> /\ t.stage = "creating"
    \* Only the thread of a new page creates one.
    <3>1. t.job # Refresh
      BY <2>5 DEF TaskInv, TaskShape, Refresh
    <3>2. notion' \in [tasks : TaskLists, loading : BOOLEAN, error : BOOLEAN] /\ notion'.loading = notion.loading
      BY <2>5 DEF TaskInv, TaskShape
    <3> QED
      BY <2>2, <2>5, <3>1, <3>2, ThreadEnds
  <2>6. CASE Publish(t)
    <3>1. /\ Ends(t) /\ UNCHANGED server
          /\ notion' \in [tasks : TaskLists, loading : BOOLEAN, error : BOOLEAN]
          /\ notion'.loading <=> notion.loading /\ t.job # Refresh
      BY <2>3, <2>6 DEF Publish, TaskInv, TaskShape
    <3> QED
      BY <2>2, <3>1, ThreadEnds
  <2>7. CASE CreatePage(t)
    BY <2>3, <2>4, <2>5, <2>7 DEF CreatePage
  <2>8. CASE Fetch(t)
    BY <2>3, <2>4, <2>8 DEF Fetch
  <2> QED
    BY <2>1, <2>6, <2>7, <2>8
<1>4. CASE ListEdited
  BY <1>4 DEF ListEdited, ServerEdit, TaskInv, TaskShape, Queued, LoadingMeansFetching
<1>5. CASE Restart
  <2>1. /\ UNCHANGED server /\ threads' = EmptyBag
        /\ notion' = [tasks |-> <<>>, loading |-> FALSE, error |-> FALSE]
    BY <1>5 DEF Restart
  <2>2. DOMAIN threads' = {} /\ IsABag(threads')
    BY <2>1 DEF EmptyBag, SetToBag, IsABag
  <2>3. TaskShape'
    BY <2>1, <2>2 DEF TaskInv, TaskShape, TaskLists
  <2> QED
    BY <2>1, <2>2, <2>3 DEF TaskInv, Queued, LoadingMeansFetching, BagToSet
<1>6. CASE WindowEvent \/ UNCHANGED overlayVars
  BY <1>6 DEF WindowEvent, overlayVars, TaskInv, TaskShape, Queued, LoadingMeansFetching
<1> QED
  BY <1>1, <1>2, <1>3, <1>4, <1>5, <1>6 DEF OverlayNext

LEMMA TasksStart == OverlayInit => TaskInv
<1> SUFFICES ASSUME OverlayInit PROVE TaskInv
  OBVIOUS
<1>1. /\ server \in Lists /\ threads = EmptyBag
      /\ notion = [tasks |-> <<>>, loading |-> FALSE, error |-> FALSE]
  BY DEF OverlayInit, NotionInit
<1>2. DOMAIN threads = {} /\ IsABag(threads)
  BY <1>1 DEF EmptyBag, SetToBag, IsABag
<1>3. TaskShape
  BY <1>1, <1>2 DEF TaskShape, TaskLists
<1> QED
  BY <1>1, <1>2, <1>3 DEF TaskInv, Queued, LoadingMeansFetching, BagToSet

\* The flag that hides the Refresh widget is up exactly while one refresh
\* thread runs, however its threads and those of new pages interleave.
THEOREM LoadingIsTrue == OverlaySpec => []LoadingMeansFetching
<1>1. OverlayInit => TaskInv
  BY TasksStart
<1>2. TaskInv => LoadingMeansFetching
  BY DEF TaskInv
<1> QED
  BY <1>1, <1>2, TaskStep, PTL DEF OverlaySpec

----------------------------------------------------------------------------
(* The clicks.                                                             *)

TaskTexts == {<<"Refresh", "refresh">>, <<"##done", "complete">>, <<"##subtask", "child">>}

\* What a widget is for follows from its label, but for the task.
IsSetting(w, i) ==
  /\ w.window = Script[i][1] /\ w.label = LabelAt[i] /\ w.does = Script[i][3]
  /\ w.id = "none"
IsTask(w) == <<w.label.text, w.does>> \in TaskTexts

\* What was drawn, and of which task a label was.
DrawnInv ==
  /\ \A d \in drawn : (\E i \in DOMAIN Script : IsSetting(d, i)) \/ IsTask(d)
  /\ \A d, e \in drawn : d.label = e.label => d.does = e.does /\ d.id = e.id

\* The click is the only thing that is kept for a label that was drawn.
Kept ==
  \A l \in DOMAIN outputs : Renewed(l) => owed.label = l /\ outputs[l] = Clicked(owed)

\* No later widget of the scripts has the label of this one.
LastOfLabel(w) ==
  \A i, j \in DOMAIN Script :
    i < j /\ Script[i][1] = w.window /\ LabelAt[i] = w.label => LabelAt[j] # w.label

\* And it is kept, unless a later widget of its label was drawn.
Owed ==
  owed # Nothing =>
    /\ owed \in drawn
    /\ LastOfLabel(owed) => owed.label \in DOMAIN outputs /\ outputs[owed.label] = Clicked(owed)

ClickInv == DrawnInv /\ Kept /\ Owed

\* The scripts are seven widgets, and no label of theirs is one of a task.
LEMMA ScriptFacts ==
  /\ DOMAIN Script = 1..7 /\ Len(Script) = 7 /\ DOMAIN LabelAt = 1..7
  /\ \A i \in 1..7 : /\ Script[i][3] \in Fields
                     /\ LabelAt[i].text \notin {"Refresh", "##done", "##subtask", ""}
                     /\ LabelAt[i].row = 0
  /\ \A i, j \in 1..7 : LabelAt[i] = LabelAt[j] => Script[i][3] = Script[j][3]
<1>1. DOMAIN Script = 1..7 /\ Len(Script) = 7
  BY DEF Script
<1>2. \A i \in 1..7 : LabelAt[i] = [text |-> Script[i][2], row |-> 0]
  BY <1>1 DEF LabelAt, Label
<1>3. /\ Script[1][2] = "Camera Distance"    /\ Script[1][3] = "camera"
      /\ Script[2][2] = "Show Debug Overlay" /\ Script[2][3] = "debug"
      /\ Script[3][2] = "Mascot Mode (M)"    /\ Script[3][3] = "mascot"
      /\ Script[4][2] = "Always on Top (F)"  /\ Script[4][3] = "onTop"
      /\ Script[5][2] = "Maximized Window"   /\ Script[5][3] = "fullscreen"
      /\ Script[6][2] = "Debug Overlay"      /\ Script[6][3] = "debug"
      /\ Script[7][2] = "Camera Distance"    /\ Script[7][3] = "camera"
  BY DEF Script
<1>4. \A i \in 1..7 : i = 1 \/ i = 2 \/ i = 3 \/ i = 4 \/ i = 5 \/ i = 6 \/ i = 7
  OBVIOUS
<1>5. \A i \in 1..7 : /\ Script[i][3] \in Fields
                      /\ Script[i][2] \notin {"Refresh", "##done", "##subtask", ""}
  BY <1>3, <1>4 DEF Fields
<1>6. \A i, j \in 1..7 : Script[i][2] = Script[j][2] => Script[i][3] = Script[j][3]
  <2> DEFINE FieldOf(text) == IF text = "Camera Distance" THEN "camera"
                              ELSE IF text \in {"Show Debug Overlay", "Debug Overlay"} THEN "debug"
                              ELSE IF text = "Mascot Mode (M)" THEN "mascot"
                              ELSE IF text = "Always on Top (F)" THEN "onTop" ELSE "fullscreen"
  <2>1. \A i \in 1..7 : Script[i][3] = FieldOf(Script[i][2])
    BY <1>3, <1>4
  <2> HIDE DEF FieldOf
  <2> QED
    BY <2>1
<1>7. \A i \in 1..7 : LabelAt[i].text = Script[i][2] /\ LabelAt[i].row = 0
  BY <1>2
<1>8. DOMAIN LabelAt = 1..7
  BY <1>1 DEF LabelAt
<1>9. \A i, j \in 1..7 : LabelAt[i] = LabelAt[j] => Script[i][3] = Script[j][3]
  BY <1>6, <1>7
<1>10. \A i \in 1..7 : LabelAt[i].text \notin {"Refresh", "##done", "##subtask", ""}
  BY <1>5, <1>7
<1> QED
  BY <1>1, <1>5, <1>7, <1>8, <1>9, <1>10

\* The label and the rest of a widget of the task list.
LEMMA TaskFields ==
  \A text, row, does, id :
    /\ TaskItem(text, row, does, id).label = Label(text, row)
    /\ TaskItem(text, row, does, id).label.text = text
    /\ TaskItem(text, row, does, id).label.row = row
    /\ TaskItem(text, row, does, id).does = does
    /\ TaskItem(text, row, does, id).id = id
    /\ TaskItem(text, row, does, id).value = Returned(Label(text, row), FALSE)
BY DEF TaskItem, Widget, Label

\* A label of the task list says which widget it is.
LEMMA TaskByLabel ==
  ASSUME NEW v, TaskWidget(v), NEW w, TaskWidget(w)
  PROVE  /\ IsTask(v) /\ v.value = Returned(v.label, FALSE)
         /\ v.label = w.label => v = w
<1>1. IsTask(v) /\ v.value = Returned(v.label, FALSE)
  <2>1. PICK text, row, does, id :
          v = TaskItem(text, row, does, id) /\ <<text, does>> \in TaskTexts
    BY DEF TaskWidget, TaskTexts
  <2>2. /\ v.label = Label(text, row) /\ v.label.text = text /\ v.does = does
        /\ v.value = Returned(Label(text, row), FALSE)
    <3> DEFINE u == TaskItem(text, row, does, id)
    <3>1. /\ u.label = Label(text, row) /\ u.label.text = text /\ u.does = does
          /\ u.value = Returned(Label(text, row), FALSE)
      BY DEF TaskItem, Widget, Label
    <3>2. v = u
      BY <2>1
    <3> HIDE DEF u
    <3> QED
      BY <3>1, <3>2
  <2> QED
    BY <2>1, <2>2 DEF IsTask
<1>2. ASSUME v.label = w.label PROVE v = w
  <2>1. v.label.text = w.label.text /\ v.label.row = w.label.row
    BY <1>2
  <2>2. CASE v = TaskItem("Refresh", 0, "refresh", "any")
    BY <2>1, <2>2, TaskFields DEF TaskWidget
  <2>3. ASSUME NEW i \in DOMAIN notion.tasks, v = TaskItem("##done", i, "complete", notion.tasks[i])
        PROVE  v = w
    BY <2>1, <2>3, TaskFields DEF TaskWidget
  <2>4. ASSUME NEW i \in DOMAIN notion.tasks, v = TaskItem("##subtask", i, "child", notion.tasks[i])
        PROVE  v = w
    BY <2>1, <2>4, TaskFields DEF TaskWidget
  <2> QED
    BY <2>2, <2>3, <2>4 DEF TaskWidget
<1> QED
  BY <1>1, <1>2

\* The widgets in the order of their calls.
LEMMA ItemsAre ==
  ASSUME notion.tasks \in TaskLists
  PROVE  /\ \E n \in Nat : DOMAIN Items = 1..n
         /\ \A i \in DOMAIN Items : IF i <= 7 THEN i \in 1..7 /\ IsSetting(Items[i], i)
                                    ELSE TaskWidget(Items[i])
<1>1. PICK k \in Nat : DOMAIN RunTasks = 1..k
  BY TasksDrawn
<1>2. RunTasks \in Seq(ToSet(RunTasks)) /\ \A w \in ToSet(RunTasks) : TaskWidget(w)
  BY TasksDrawn
<1> DEFINE S == {RunSettings[i] : i \in 1..7} \cup ToSet(RunTasks)
<1>3. RunSettings \in [1..7 -> S]
  BY ScriptFacts DEF RunSettings
<1>4. RunTasks \in [1..k -> S] /\ \A i \in 1..k : TaskWidget(RunTasks[i])
  BY <1>1, <1>2 DEF ToSet
<1>5. \A i \in 1..7 : IsSetting(RunSettings[i], i)
  BY ScriptFacts DEF RunSettings, IsSetting, Widget
<1> HIDE DEF S
<1>6. RunSettings \in Seq(S) /\ RunTasks \in Seq(S) /\ Len(RunSettings) = 7 /\ Len(RunTasks) = k
  <2>1. \A n \in Nat : \A f \in [1..n -> S] : f \in Seq(S) /\ Len(f) = n
    OBVIOUS
  <2> QED
    BY <1>3, <1>4, <2>1
<1>7. /\ DOMAIN Items = 1..7 + k
      /\ \A i \in 1..7 + k : Items[i] = IF i <= 7 THEN RunSettings[i] ELSE RunTasks[i - 7]
  <2>1. \A s, t \in Seq(S) : /\ s \o t \in Seq(S) /\ Len(s \o t) = Len(s) + Len(t)
                             /\ \A i \in 1..Len(s) + Len(t) :
                                  (s \o t)[i] = IF i <= Len(s) THEN s[i] ELSE t[i - Len(s)]
    BY ConcatProperties
  <2> DEFINE s == RunSettings
             t == RunTasks
  <2>2. Items = s \o t
    BY DEF Items
  <2>3. s \in Seq(S) /\ t \in Seq(S) /\ Len(s) = 7 /\ Len(t) = k
    BY <1>6
  <2> HIDE DEF s, t
  <2>4. /\ s \o t \in Seq(S) /\ Len(s \o t) = Len(s) + Len(t)
        /\ \A i \in 1..Len(s) + Len(t) : (s \o t)[i] = IF i <= Len(s) THEN s[i] ELSE t[i - Len(s)]
    BY <2>1, <2>3, Zenon
  <2>5. /\ Items \in Seq(S) /\ Len(Items) = 7 + k
        /\ \A i \in 1..7 + k : Items[i] = IF i <= 7 THEN s[i] ELSE t[i - 7]
    <3> DEFINE all == s \o t
    <3> HIDE DEF all
    <3>1. all \in Seq(S) /\ Len(all) = Len(s) + Len(t)
          /\ \A i \in 1..Len(s) + Len(t) : all[i] = IF i <= Len(s) THEN s[i] ELSE t[i - Len(s)]
      BY <2>4 DEF all
    <3>2. Items = all
      BY <2>2 DEF all
    <3> QED
      BY <2>3, <3>1, <3>2
  <2> QED
    BY <2>5 DEF s, t
<1>8. ASSUME NEW i \in 1..7 + k
      PROVE  IF i <= 7 THEN i \in 1..7 /\ IsSetting(Items[i], i) ELSE TaskWidget(Items[i])
  <2>1. CASE i <= 7
    <3>1. i \in 1..7
      BY <2>1
    <3> QED
      BY <1>5, <1>7, <2>1, <3>1
  <2>2. CASE ~(i <= 7)
    <3>1. i - 7 \in 1..k
      BY <2>2
    <3> QED
      BY <1>4, <1>7, <2>2, <3>1
  <2> QED
    BY <2>1, <2>2
<1> QED
  BY <1>7, <1>8

\* Of two widgets of one label, one is the other or comes later in the scripts.
LEMMA SameLabel ==
  ASSUME notion.tasks \in TaskLists, NEW i \in DOMAIN Items, NEW j \in DOMAIN Items,
         Items[i].label = Items[j].label
  PROVE  /\ Items[i].does = Items[j].does /\ Items[i].id = Items[j].id
         /\ i > 7 => Items[j] = Items[i]
         /\ i <= 7 => j <= 7
<1>1. \A k \in {i, j} : IF k <= 7 THEN k \in 1..7 /\ IsSetting(Items[k], k) ELSE TaskWidget(Items[k])
  BY ItemsAre
<1>2. \A k \in {i, j} : k > 7 => TaskWidget(Items[k]) /\ IsTask(Items[k])
  <2>1. \A k \in {i, j} : k > 7 => ~(k <= 7)
    BY ItemsAre
  <2> QED
    BY <1>1, <2>1, TaskByLabel
<1>3. \A k \in {i, j} : k > 7 => Items[k].label.text \in {"Refresh", "##done", "##subtask"}
  BY <1>2 DEF IsTask, TaskTexts
<1>4. \A k \in {i, j} : k <= 7 => /\ k \in 1..7 /\ IsSetting(Items[k], k)
                                  /\ Items[k].label.text \notin {"Refresh", "##done", "##subtask"}
  <2>1. ASSUME NEW k \in 1..7, IsSetting(Items[k], k)
        PROVE  Items[k].label.text \notin {"Refresh", "##done", "##subtask"}
    BY <2>1, ScriptFacts DEF IsSetting
  <2> QED
    BY <1>1, <2>1
<1>5. (i <= 7 /\ j <= 7) \/ (i > 7 /\ j > 7)
  <2>1. \A k \in {i, j} : k <= 7 \/ k > 7
    BY ItemsAre
  <2> QED
    BY <1>3, <1>4, <2>1
<1>6. CASE i <= 7 /\ j <= 7
  <2>1. ~(i > 7)
    BY <1>6, ItemsAre
  <2>2. Items[i].does = Items[j].does /\ Items[i].id = Items[j].id
    BY <1>4, <1>6, ScriptFacts DEF IsSetting
  <2> QED
    BY <1>6, <2>1, <2>2
<1>7. CASE i > 7 /\ j > 7
  <2>1. Items[i] = Items[j]
    BY <1>2, <1>7, TaskByLabel
  <2>2. ~(i <= 7)
    BY <1>7, ItemsAre
  <2> QED
    BY <1>7, <2>1, <2>2
<1> QED
  BY <1>5, <1>6, <1>7

\* What a replay leaves for each label.
LEMMA ReplayedEffect ==
  ASSUME NEW items, NEW shown, NEW click
  PROVE  LET after == Replayed(items, shown, click)
         IN  /\ \A l \in DOMAIN after :
                  \/ l \notin Stale(items, shown) /\ l \in DOMAIN outputs /\ after[l] = outputs[l]
                  \/ l = click.label /\ after[l] = Clicked(click)
             /\ (\E i \in shown : /\ items[i] = click
                                  /\ \A j \in shown : j > i => items[j].label # click.label)
                => click.label \in DOMAIN after /\ after[click.label] = Clicked(click)
<1> DEFINE kept == KeptFor(items, shown, click)
           after == Replayed(items, shown, click)
<1>1. /\ DOMAIN after = (DOMAIN outputs \ Stale(items, shown)) \cup kept
      /\ \A l \in DOMAIN after : after[l] = IF l \in kept THEN Clicked(click) ELSE outputs[l]
  BY DEF Replayed
<1>2. \A l \in kept : l = click.label
  BY DEF KeptFor
<1>3. (\E i \in shown : items[i] = click /\ \A j \in shown : j > i => items[j].label # click.label)
      => click.label \in kept
  BY DEF KeptFor
<1> HIDE DEF kept, after
<1> QED
  BY <1>1, <1>2, <1>3 DEF after

\* The last widget of a label.
LEMMA Greatest ==
  ASSUME NEW n \in Nat, NEW T \in SUBSET (1..n), T # {}
  PROVE  \E p \in T : \A q \in T : q <= p
<1> DEFINE U == {n - q : q \in T}
<1>0. \A q \in T : q \in 1..n /\ n - q \in Nat
  OBVIOUS
<1>1. U \in SUBSET Nat /\ U # {}
  BY <1>0
<1>2. PICK u \in U : \A v \in U : u <= v
  <2> HIDE DEF U
  <2> QED
    BY <1>1, Least
<1>3. PICK p \in T : u = n - p
  OBVIOUS
<1>4. \A q \in T : n - p <= n - q
  BY <1>2, <1>3
<1>5. ASSUME NEW q \in T PROVE q <= p
  <2>1. p \in 1..n /\ q \in 1..n /\ n - p <= n - q
    BY <1>0, <1>4
  <2> QED
    BY <2>1
<1>6. \A q \in T : q <= p
  BY <1>5
<1> QED
  BY <1>6

\* The last widget drawn of the label of the clicked one is that one, if no
\* later call has its label.
LEMMA ClickedLast ==
  ASSUME notion.tasks \in TaskLists, NEW shown \in SUBSET DOMAIN Items,
         NEW click, \E i \in shown : Items[i] = click, LastOfLabel(click)
  PROVE  \E p \in shown : /\ Items[p] = click
                          /\ \A j \in shown : j > p => Items[j].label # click.label
<1>1. PICK n \in Nat : DOMAIN Items = 1..n
  BY ItemsAre
<1>2. PICK i \in shown : Items[i] = click
  OBVIOUS
<1> DEFINE T == {j \in shown : Items[j].label = click.label}
<1>3. T \in SUBSET (1..n) /\ i \in T
  BY <1>1, <1>2
<1>4. PICK p \in T : \A j \in T : j <= p
  <2> HIDE DEF T
  <2> QED
    BY <1>3, Greatest
<1>5. /\ p \in shown /\ i \in 1..n /\ p \in 1..n /\ i <= p
      /\ Items[i].label = click.label /\ Items[p].label = click.label
  BY <1>1, <1>2, <1>3, <1>4
<1>6. ASSUME NEW j \in shown, j > p PROVE Items[j].label # click.label
  BY <1>1, <1>4, <1>5, <1>6
<1>7. Items[p] = click
  <2>1. CASE i > 7
    BY <1>2, <1>5, <2>1, SameLabel
  <2>2. CASE i <= 7 /\ i < p
    <3>1. p <= 7
      BY <1>5, <2>2, SameLabel
    <3>2. i \in 1..7 /\ IsSetting(Items[i], i) /\ p \in 1..7 /\ IsSetting(Items[p], p)
      BY <1>5, <2>2, <3>1, ItemsAre
    <3>3. Script[i][1] = click.window /\ LabelAt[i] = click.label /\ LabelAt[p] = click.label
      BY <1>2, <1>5, <3>2 DEF IsSetting
    <3> QED
      BY <2>2, <3>2, <3>3, ScriptFacts DEF LastOfLabel
  <2>3. CASE i = p
    BY <1>2, <2>3
  <2> QED
    BY <1>5, <2>1, <2>2, <2>3
<1> QED
  BY <1>5, <1>6, <1>7

\* What a replay of the widgets leaves behind.
LEMMA DrawKeeps ==
  ASSUME notion.tasks \in TaskLists, NEW hiding, NEW click, Draw(Items, hiding, click)
  PROVE  ClickInv'
<1> DEFINE shown == {i \in DOMAIN Items : Items[i].window \notin hiding}
           seen == {Items[i] : i \in shown}
<1>1. /\ click \in seen \cup {Nothing} /\ drawn' = seen /\ owed' = click
      /\ outputs' = Replayed(Items, shown, click)
  BY DEF Draw
<1>2. shown \in SUBSET DOMAIN Items /\ \A w : w \in seen <=> \E i \in shown : w = Items[i]
  OBVIOUS
<1> HIDE DEF shown, seen
<1>3. DrawnInv'
  <2>1. ASSUME NEW i \in shown
        PROVE  (\E k \in DOMAIN Script : IsSetting(Items[i], k)) \/ IsTask(Items[i])
    <3>1. IF i <= 7 THEN i \in 1..7 /\ IsSetting(Items[i], i) ELSE TaskWidget(Items[i])
      BY <1>2, ItemsAre
    <3> QED
      BY <3>1, ScriptFacts, TaskByLabel
  <2>2. \A d \in seen : (\E k \in DOMAIN Script : IsSetting(d, k)) \/ IsTask(d)
    BY <1>2, <2>1
  <2>3. \A d, e \in seen : d.label = e.label => d.does = e.does /\ d.id = e.id
    BY <1>2, SameLabel
  <2> QED
    BY <1>1, <2>2, <2>3 DEF DrawnInv
<1>4. \A w \in seen : w.label \in Stale(Items, shown)
  BY <1>2 DEF Stale
<1> DEFINE after == Replayed(Items, shown, click)
<1>5. /\ \A l \in DOMAIN after :
           \/ l \notin Stale(Items, shown) /\ l \in DOMAIN outputs /\ after[l] = outputs[l]
           \/ l = click.label /\ after[l] = Clicked(click)
      /\ (\E i \in shown : /\ Items[i] = click
                           /\ \A j \in shown : j > i => Items[j].label # click.label)
         => click.label \in DOMAIN after /\ after[click.label] = Clicked(click)
  BY ReplayedEffect
<1> HIDE DEF after
<1>6. outputs' = after
  BY <1>1 DEF after
<1>7. Kept'
  <2>1. ASSUME NEW l \in DOMAIN after, NEW w \in seen, w.label = l
        PROVE  click.label = l /\ after[l] = Clicked(click)
    BY <1>4, <1>5, <2>1
  <2> QED
    BY <1>1, <1>6, <2>1 DEF Kept, Renewed
<1>8. Owed'
  <2>1. ASSUME click # Nothing, LastOfLabel(click)
        PROVE  click.label \in DOMAIN after /\ after[click.label] = Clicked(click)
    <3>1. \E i \in shown : Items[i] = click
      BY <1>1, <1>2, <2>1
    <3>2. \E p \in shown : /\ Items[p] = click
                           /\ \A j \in shown : j > p => Items[j].label # click.label
      BY <1>2, <2>1, <3>1, ClickedLast
    <3> QED
      BY <1>5, <3>2
  <2> QED
    BY <1>1, <1>6, <2>1 DEF Owed
<1> QED
  BY <1>3, <1>7, <1>8 DEF ClickInv

\* A frame runs the scripts, or it leaves what they keep alone.
LEMMA Drawing ==
  ASSUME DrawFrame
  PROVE  \/ showImgui /\ \E hiding, click : Draw(Items, hiding, click)
         \/ ~showImgui /\ UNCHANGED <<outputs, drawn, owed>>
BY DEF DrawFrame, DrawNothing, DrawOnly, DrawAndClick, DrawSwitching, DrawAndClose, Draw

LEMMA ClickStep == TaskInv /\ ClickInv /\ [OverlayNext]_overlayVars => ClickInv'
<1> SUFFICES ASSUME TaskInv, ClickInv, [OverlayNext]_overlayVars
             PROVE  ClickInv'
  OBVIOUS
<1>1. ASSUME UNCHANGED <<outputs, drawn, owed>> PROVE ClickInv'
  BY <1>1 DEF ClickInv, DrawnInv, Kept, Owed, Renewed
<1>2. CASE DrawFrame
  <2>1. notion.tasks \in TaskLists
    BY DEF TaskInv, TaskShape
  <2> QED
    BY <1>1, <1>2, <2>1, Drawing, DrawKeeps
<1>3. CASE Restart
  <2>1. outputs' = <<>> /\ drawn' = {} /\ owed' = Nothing
    BY <1>3 DEF Restart
  <2> QED
    BY <2>1 DEF ClickInv, DrawnInv, Kept, Owed, Renewed
<1>4. CASE FinishFrame \/ WindowEvent \/ ThreadRuns \/ ListEdited \/ UNCHANGED overlayVars
  BY <1>1, <1>4 DEF FinishFrame, WindowEvent, ThreadRuns, ListEdited, frameVars, overlayVars
<1> QED
  BY <1>2, <1>3, <1>4 DEF OverlayNext

\* What a field has after the scripts is what it had, or what the last widget
\* of it returned of those for which something is kept.
LEMMA LastReturned ==
  ASSUME NEW f \in Fields, NEW setting,
         setting = {i \in PlacesOf[f] : LabelAt[i] \in DOMAIN outputs}
  PROVE  /\ setting = {} => Changed[f] = Settings[f]
         /\ setting # {} => \E p \in setting : /\ Changed[f] = outputs[LabelAt[p]]
                                               /\ \A i \in setting : i <= p
<1>1. PlacesOf[f] = {i \in 1..7 : Script[i][3] = f}
  BY ScriptFacts DEF PlacesOf
<1>2. setting = {i \in PlacesOf[f] : i <= 7 /\ LabelAt[i] \in DOMAIN outputs}
  BY <1>1
<1>3. Changed[f] = IF setting = {} THEN Settings[f] ELSE outputs[LabelAt[Max(setting)]]
  BY <1>2, ScriptFacts DEF Changed, After
<1>4. ASSUME setting # {}
      PROVE  Max(setting) \in setting /\ \A i \in setting : i <= Max(setting)
  <2>1. setting \in SUBSET (1..7)
    BY <1>1
  <2>2. PICK p \in setting : \A i \in setting : i <= p
    BY <1>4, <2>1, Greatest
  <2>3. \A i \in setting : p >= i
    BY <2>1, <2>2
  <2>4. Max(setting) \in setting /\ \A i \in setting : Max(setting) >= i
    BY <2>3 DEF Max
  <2> QED
    BY <2>1, <2>4
<1> QED
  BY <1>3, <1>4

\* A label of a setting is not one of the task list, and says which field it is.
LEMMA LabelTells ==
  ASSUME NEW w, (\E i \in DOMAIN Script : IsSetting(w, i)) \/ IsTask(w)
  PROVE  /\ \A i \in 1..7 : w.label = LabelAt[i] => w.does = Script[i][3]
         /\ \A v : IsTask(v) /\ v.label = w.label => IsTask(w) /\ v.does = w.does
         /\ w.does \in Fields <=> \E i \in 1..7 : IsSetting(w, i)
<1>1. \A v : IsTask(v) => /\ v.label.text \in {"Refresh", "##done", "##subtask"}
                          /\ v.does \notin Fields
                          /\ v.label.text = "Refresh" => v.does = "refresh"
                          /\ v.label.text = "##done" => v.does = "complete"
                          /\ v.label.text = "##subtask" => v.does = "child"
  BY DEF IsTask, TaskTexts, Fields
<1>2. \A i \in 1..7 : IsSetting(w, i) => /\ w.label = LabelAt[i] /\ w.does = Script[i][3]
                                         /\ w.does \in Fields
                                         /\ w.label.text \notin {"Refresh", "##done", "##subtask"}
  BY ScriptFacts DEF IsSetting
<1>3. \A i \in 1..7 : LabelAt[i].text \notin {"Refresh", "##done", "##subtask"}
  BY ScriptFacts
<1>4. CASE IsTask(w)
  BY <1>1, <1>2, <1>3, <1>4
<1>5. CASE \E i \in 1..7 : IsSetting(w, i)
  <2>1. PICK k \in 1..7 : IsSetting(w, k)
    BY <1>5
  <2>2. /\ w.label = LabelAt[k] /\ w.does = Script[k][3] /\ w.does \in Fields
        /\ w.label.text \notin {"Refresh", "##done", "##subtask"}
    BY <1>2, <2>1
  <2>3. \A i \in 1..7 : w.label = LabelAt[i] => w.does = Script[i][3]
    BY <2>2, ScriptFacts
  <2>4. \A v : ~(IsTask(v) /\ v.label = w.label)
    BY <1>1, <2>2
  <2> QED
    BY <1>5, <2>2, <2>3, <2>4
<1> QED
  BY <1>4, <1>5, ScriptFacts

\* A label that was drawn has the click or nothing.
LEMMA RenewedIsClick ==
  ASSUME ClickInv, NEW d \in drawn, d.label \in DOMAIN outputs, d.label.text # ""
  PROVE  /\ owed \in drawn /\ owed # Nothing /\ outputs[d.label] = Clicked(owed)
         /\ owed.label = d.label /\ owed.does = d.does /\ owed.id = d.id
<1>1. owed.label = d.label /\ outputs[d.label] = Clicked(owed)
  BY DEF ClickInv, Kept, Renewed
<1>2. owed # Nothing
  <2>1. Nothing.label.text = ""
    BY DEF Nothing, Widget, Label
  <2> QED
    BY <1>1, <2>1
<1>3. owed \in drawn
  BY <1>2 DEF ClickInv, Owed
<1> QED
  BY <1>1, <1>2, <1>3 DEF ClickInv, DrawnInv

\* A frame in which the scripts run.
LEMMA Running ==
  ASSUME TaskInv, [OverlayNext]_overlayVars, Ran
  PROVE  requested' = Changed /\ actions' = actions \cup Asked /\ notion.tasks \in TaskLists
<1>1. DrawFrame
  BY DEF Ran, OverlayNext, FinishFrame, WindowEvent, ThreadRuns, ListEdited, Restart, overlayVars,
         frameVars
<1>2. PICK hiding, click : Draw(Items, hiding, click)
  BY <1>1, Drawing DEF Ran
<1> QED
  BY <1>2 DEF Draw, TaskInv, TaskShape

LEMMA StepAddsNothing == TaskInv /\ ClickInv /\ [OverlayNext]_overlayVars => AddsNothing
<1> SUFFICES ASSUME TaskInv, ClickInv, [OverlayNext]_overlayVars, Ran
             PROVE  /\ \A f \in Fields : requested'[f] # Settings[f] =>
                         \/ owed.does = f /\ requested'[f] = Clicked(owed)
                         \/ \E i \in PlacesOf[f] : /\ LabelAt[i] \in DOMAIN outputs
                                                   /\ ~Renewed(LabelAt[i])
                    /\ \A a \in actions' \ actions :
                         \/ owed.does = a.does /\ owed.id = a.id
                         \/ \E w \in ToSet(RunTasks) :
                              /\ w.does = a.does /\ w.id = a.id
                              /\ ~\E d \in drawn : d.label = w.label /\ d.id = w.id
  BY Zenon DEF AddsNothing
<1>1. requested' = Changed /\ actions' = actions \cup Asked /\ notion.tasks \in TaskLists
  BY Running
<1>2. ASSUME NEW f \in Fields, Changed[f] # Settings[f],
             \A i \in PlacesOf[f] : LabelAt[i] \in DOMAIN outputs => Renewed(LabelAt[i])
      PROVE  owed.does = f /\ Changed[f] = Clicked(owed)
  <2> DEFINE setting == {i \in PlacesOf[f] : LabelAt[i] \in DOMAIN outputs}
  <2>1. PICK p \in setting : Changed[f] = outputs[LabelAt[p]]
    <3> HIDE DEF Changed
    <3> QED
      BY <1>2, LastReturned
  <2>2. p \in 1..7 /\ Script[p][3] = f /\ LabelAt[p] \in DOMAIN outputs
    BY ScriptFacts DEF PlacesOf
  <2>3. PICK d \in drawn : d.label = LabelAt[p]
    BY <1>2 DEF Renewed
  <2>4. d.does = f
    BY <2>2, <2>3, LabelTells DEF ClickInv, DrawnInv
  <2>5. d.label.text # ""
    BY <2>2, <2>3, ScriptFacts
  <2> QED
    BY <2>1, <2>2, <2>3, <2>4, <2>5, RenewedIsClick
<1>3. ASSUME NEW a \in Asked,
             \A w \in ToSet(RunTasks) :
               w.does = a.does /\ w.id = a.id => \E d \in drawn : d.label = w.label /\ d.id = w.id
      PROVE  owed.does = a.does /\ owed.id = a.id
  <2>1. PICK w \in ToSet(RunTasks) : w.value /\ a = [does |-> w.does, id |-> w.id]
    BY DEF Asked
  <2>2. PICK d \in drawn : d.label = w.label /\ d.id = w.id
    BY <1>3, <2>1
  <2>3. IsTask(w) /\ w.value = Returned(w.label, FALSE)
    BY <1>1, TasksDrawn, TaskByLabel
  <2>4. d.label \in DOMAIN outputs
    BY <2>1, <2>2, <2>3 DEF Returned
  <2>5. d.does = w.does
    BY <2>2, <2>3, LabelTells DEF ClickInv, DrawnInv
  <2>6. d.label.text # ""
    BY <2>2, <2>3 DEF IsTask, TaskTexts
  <2> QED
    BY <2>1, <2>2, <2>4, <2>5, <2>6, RenewedIsClick
<1> QED
  BY <1>1, <1>2, <1>3

LEMMA StepTakesClick == TaskInv /\ ClickInv /\ [OverlayNext]_overlayVars => TakesClick
<1> SUFFICES ASSUME TaskInv, ClickInv, [OverlayNext]_overlayVars, Ran, owed # Nothing
             PROVE  IF owed.does \in Fields
                    THEN LastWord(owed) => requested'[owed.does] = Clicked(owed)
                    ELSE (Clicked(owed)
                          /\ \E w \in ToSet(RunTasks) : w.label = owed.label /\ w.id = owed.id)
                         => [does |-> owed.does, id |-> owed.id] \in actions'
  BY Zenon DEF TakesClick
<1>1. requested' = Changed /\ actions' = actions \cup Asked /\ notion.tasks \in TaskLists
  BY Running
<1>2. /\ owed \in drawn
      /\ LastOfLabel(owed) => owed.label \in DOMAIN outputs /\ outputs[owed.label] = Clicked(owed)
  BY DEF ClickInv, Owed
<1>3. (\E i \in DOMAIN Script : IsSetting(owed, i)) \/ IsTask(owed)
  BY <1>2 DEF ClickInv, DrawnInv
<1>4. ASSUME NEW k \in 1..7, IsSetting(owed, k), LastWord(owed)
      PROVE  Changed[owed.does] = Clicked(owed)
  <2>1. owed.label = LabelAt[k] /\ owed.does = Script[k][3] /\ owed.window = Script[k][1]
    BY <1>4 DEF IsSetting
  <2>2. LastOfLabel(owed)
    <3>1. SUFFICES ASSUME NEW i \in 1..7, NEW j \in 1..7, i < j, Script[i][1] = owed.window,
                          LabelAt[i] = owed.label, LabelAt[j] = owed.label
                   PROVE  FALSE
      BY ScriptFacts DEF LastOfLabel
    <3>2. Script[j][3] = owed.does
      BY <2>1, <3>1, ScriptFacts
    <3> QED
      BY <1>4, <3>1, <3>2, ScriptFacts DEF LastWord
  <2>3. LabelAt[k] \in DOMAIN outputs /\ outputs[LabelAt[k]] = Clicked(owed)
    BY <1>2, <2>1, <2>2
  <2> DEFINE setting == {i \in PlacesOf[owed.does] : LabelAt[i] \in DOMAIN outputs}
  <2>4. owed.does \in Fields /\ k \in PlacesOf[owed.does]
    BY <2>1, ScriptFacts DEF PlacesOf
  <2>5. PICK p \in setting : /\ Changed[owed.does] = outputs[LabelAt[p]]
                             /\ \A i \in setting : i <= p
    <3> HIDE DEF Changed
    <3> QED
      BY <2>3, <2>4, LastReturned
  <2>6. p \in 1..7 /\ Script[p][3] = owed.does /\ LabelAt[p] \in DOMAIN outputs /\ k <= p
    BY <2>3, <2>4, <2>5, ScriptFacts DEF PlacesOf
  <2>7. CASE k < p
    <3>1. LabelAt[p] # owed.label /\ Renewed(LabelAt[p])
      BY <1>4, <2>1, <2>6, <2>7, ScriptFacts DEF LastWord
    <3> QED
      BY <2>6, <3>1 DEF ClickInv, Kept
  <2> QED
    BY <2>3, <2>5, <2>6, <2>7
<1>5. ASSUME IsTask(owed), Clicked(owed),
             NEW w \in ToSet(RunTasks), w.label = owed.label, w.id = owed.id
      PROVE  [does |-> owed.does, id |-> owed.id] \in Asked
  <2>1. IsTask(w) /\ w.value = Returned(w.label, FALSE)
    BY <1>1, TasksDrawn, TaskByLabel
  <2>2. LastOfLabel(owed)
    <3>1. \A i \in 1..7 : LabelAt[i] # owed.label
      BY <1>5, ScriptFacts DEF IsTask, TaskTexts
    <3> QED
      BY <3>1, ScriptFacts DEF LastOfLabel
  <2>3. w.value = Clicked(owed)
    BY <1>2, <1>5, <2>1, <2>2 DEF Returned
  <2>4. w.value
    BY <1>5, <2>3, Zenon
  <2>5. w.does = owed.does
    BY <1>3, <1>5, <2>1, LabelTells
  <2> QED
    BY <1>5, <2>4, <2>5 DEF Asked
<1>6. CASE owed.does \in Fields
  <2>1. PICK k \in 1..7 : IsSetting(owed, k)
    BY <1>3, <1>6, LabelTells
  <2> QED
    BY <1>1, <1>4, <1>6, <2>1
<1>7. CASE owed.does \notin Fields
  <2>1. IsTask(owed)
    BY <1>3, <1>7, LabelTells, ScriptFacts
  <2> QED
    BY <1>1, <1>5, <1>7, <2>1
<1> QED
  BY <1>6, <1>7

LEMMA ClicksAreKept == OverlaySpec => [](TaskInv /\ ClickInv)
<1>1. OverlayInit => TaskInv
  BY TasksStart
<1>2. OverlayInit => ClickInv
  <2> SUFFICES ASSUME OverlayInit PROVE ClickInv
    OBVIOUS
  <2>1. outputs = <<>> /\ drawn = {} /\ owed = Nothing
    BY DEF OverlayInit
  <2> QED
    BY <2>1 DEF ClickInv, DrawnInv, Kept, Owed, Renewed
<1> QED
  BY <1>1, <1>2, TaskStep, ClickStep, PTL DEF OverlaySpec

\* What the user does to a widget is what its setting has after the next run
\* of the scripts, or is asked for then, whatever comes in between.
THEOREM ClicksArrive == OverlaySpec => ClickArrives
<1> QED
  BY ClicksAreKept, StepTakesClick, PTL DEF OverlaySpec, ClickArrives

\* No click works twice or on another widget.
THEOREM NothingIsUnasked == OverlaySpec => NothingUnasked
<1> QED
  BY ClicksAreKept, StepAddsNothing, PTL DEF OverlaySpec, NothingUnasked

=============================================================================
