------------------------- MODULE FileWatcherProofs --------------------------
(***************************************************************************)
(* Proofs about FileWatcher, for any files, any order of initialisation    *)
(* and destruction, and any number of edits and seconds: the watcher polls *)
(* under the mutex, calls back only managers that are still there, and is  *)
(* joined when the program ends.                                           *)
(***************************************************************************)
EXTENDS FileWatcher, TLAPS

\* Where the threads can be, and what they have in hand: the part of the type
\* invariant that the arguments about the mutex need.
Typing ==
    /\ mutex \in {"none", "main", "watcher"}
    /\ mainPc \in {"load", "stat", "register", "serve", "release",
                   "unregister", "join", "done"}
    /\ watcherPc \in {"none", "test", "lock", "poll", "callback", "ended"}
    /\ isRunning \in BOOLEAN
    /\ turn \in Nat \ {0}
    /\ mainPc \in {"load", "stat", "register"} => turn \in 1..Len(InitOrder)
    /\ mainPc \in {"release", "unregister", "join"} => turn \in 1..Len(DestroyOrder)
    /\ DOMAIN fileInfo \subseteq File
    /\ left \subseteq DOMAIN fileInfo
    /\ watcherPc \notin {"poll", "callback"} => left = {}
    /\ watcherPc = "callback" => polled.file \in DOMAIN fileInfo

\* What holds in every reachable state.
Inv == Typing /\ WatcherInv

LEMMA OrdersAreFiles ==
    /\ \A i \in 1..Len(InitOrder) : InitOrder[i] \in File
    /\ \A i \in 1..Len(DestroyOrder) : DestroyOrder[i] \in File
    /\ {DestroyOrder[i] : i \in 1..Len(DestroyOrder)} = File
    /\ Len(InitOrder) \in Nat \ {0} /\ Len(DestroyOrder) \in Nat \ {0}
  <1>1. /\ InitOrder \in Seq(File) /\ DestroyOrder \in Seq(File)
        /\ Len(InitOrder) > 0 /\ Len(DestroyOrder) > 0
        /\ Range(DestroyOrder) = File
    BY OrderAssumption
  <1>2. DOMAIN DestroyOrder = 1..Len(DestroyOrder)
    BY <1>1
  <1>3. {DestroyOrder[i] : i \in 1..Len(DestroyOrder)} = File
    BY <1>1, <1>2 DEF Range
  <1> QED
    BY <1>1, <1>3

LEMMA InitInv == Init => Inv
  <1> SUFFICES ASSUME Init PROVE Inv
    OBVIOUS
  <1>1. DOMAIN fileInfo = {}
    BY DEF Init
  <1>2. Typing
    <2>1. turn \in Nat \ {0} /\ turn \in 1..Len(InitOrder)
      BY OrdersAreFiles DEF Init
    <2> QED
      BY <1>1, <2>1 DEF Init, Typing
  <1>3. WatcherInv
    BY <1>1 DEF Init, WatcherInv, PollIsExclusive
  <1> QED BY <1>2, <1>3 DEF Inv

\* Files to destroy do not depend on what the watcher does.
LEMMA WatcherStep ==
    ASSUME Inv, Watcher
    PROVE  Inv'
  <1>1. UNCHANGED main
    BY DEF Watcher, TestRunning, StartPoll, Reload, EndPoll, PollFile
  <1>2. Initialising' = Initialising /\ StillToDestroy' = StillToDestroy
    BY <1>1 DEF main, Initialising, StillToDestroy
  <1>3. CASE TestRunning
    BY <1>1, <1>2, <1>3
    DEF TestRunning, main, managers, Inv, Typing, WatcherInv, PollIsExclusive
  <1>4. CASE StartPoll
    BY <1>1, <1>2, <1>4
    DEF StartPoll, main, managers, Inv, Typing, WatcherInv, PollIsExclusive
  <1>5. ASSUME NEW f \in File, PollFile(f) PROVE Inv'
    BY <1>1, <1>2, <1>5
    DEF PollFile, main, managers, Inv, Typing, WatcherInv, PollIsExclusive
  <1>6. CASE Reload
    <2>1. DOMAIN fileInfo' = DOMAIN fileInfo
      BY <1>6 DEF Reload
    <2> QED
      BY <1>1, <1>2, <1>6, <2>1
      DEF Reload, main, Inv, Typing, WatcherInv, PollIsExclusive
  <1>7. CASE EndPoll
    BY <1>1, <1>2, <1>7
    DEF EndPoll, main, managers, Inv, Typing, WatcherInv, PollIsExclusive
  <1> QED BY <1>3, <1>4, <1>5, <1>6, <1>7 DEF Watcher

\* A manager is initialised.
LEMMA InitialisingStep ==
    ASSUME Inv, LoadConf \/ StatConf \/ RegisterFile \/ Quit
    PROVE  Inv'
  <1> USE OrdersAreFiles
  <1>1. CASE LoadConf
    BY <1>1
    DEF LoadConf, watcher, Inv, Typing, WatcherInv, PollIsExclusive,
        Initialising, StillToDestroy
  <1>2. CASE StatConf
    BY <1>2
    DEF StatConf, NextInit, watcher, managers, Inv, Typing, WatcherInv,
        PollIsExclusive, Initialising, StillToDestroy
  <1>3. CASE RegisterFile
    <2>1. InitFile \in File
      BY <1>3 DEF RegisterFile, Inv, Typing, InitFile
    <2>2. DOMAIN fileInfo' = DOMAIN fileInfo \union {InitFile}
      BY <1>3 DEF RegisterFile
    <2>3. Initialising /\ Initialising'
      BY <1>3 DEF RegisterFile, NextInit, Initialising
    <2>4. Typing'
      <3>1. turn' \in Nat \ {0} /\ (mainPc' = "load" => turn' \in 1..Len(InitOrder))
        BY <1>3 DEF RegisterFile, NextInit, Inv, Typing
      <3>2. mainPc' \in {"load", "serve"}
        BY <1>3 DEF RegisterFile, NextInit
      <3>3. \/ watcherPc' = watcherPc
            \/ watcherPc' = "test" /\ watcherPc \notin {"poll", "callback"}
        BY <1>3 DEF RegisterFile, Inv, Typing, WatcherInv
      <3> QED
        BY <1>3, <2>1, <2>2, <3>1, <3>2, <3>3 DEF RegisterFile, Inv, Typing
    <2>5. WatcherInv'
      BY <1>3, <2>1, <2>2, <2>3
      DEF RegisterFile, NextInit, managers, Inv, Typing, WatcherInv,
          PollIsExclusive, Initialising, StillToDestroy
    <2> QED BY <2>4, <2>5 DEF Inv
  <1>4. CASE Quit
    BY <1>4
    DEF Quit, watcher, managers, Inv, Typing, WatcherInv, PollIsExclusive,
        Initialising, StillToDestroy
  <1> QED BY <1>1, <1>2, <1>3, <1>4

\* A manager is destroyed.
LEMMA DestroyingStep ==
    ASSUME Inv, ReleaseFirst \/ UnregisterFile \/ UnregisterLast \/ JoinWatcher
    PROVE  Inv'
  <1> USE OrdersAreFiles
  <1>1. CASE ReleaseFirst
    BY <1>1
    DEF ReleaseFirst, watcher, Inv, Typing, WatcherInv, PollIsExclusive,
        Initialising, StillToDestroy
  <1>2. CASE UnregisterFile
    <2>1. DOMAIN fileInfo' = DOMAIN fileInfo \ {DestroyFile}
      BY <1>2 DEF UnregisterFile, WithoutFile, Restrict
    <2>2. turn \in 1..Len(DestroyOrder) /\ DOMAIN fileInfo \subseteq
             {DestroyOrder[i] : i \in turn..Len(DestroyOrder)}
      BY <1>2 DEF UnregisterFile, Inv, Typing, WatcherInv, StillToDestroy, Initialising
    <2>3. DOMAIN fileInfo' \subseteq StillToDestroy'
      BY <1>2, <2>1, <2>2
      DEF UnregisterFile, FinishDestroy, StillToDestroy, Initialising, DestroyFile
    <2>4. isRunning' <=> DOMAIN fileInfo' # {}
      BY <1>2, <2>1
      DEF UnregisterFile, StopsWatcher, WithoutFile, Restrict, Inv, Typing, WatcherInv
    <2>5. Typing'
      BY <1>2, <2>1, <2>2
      DEF UnregisterFile, FinishDestroy, watcher, Inv, Typing, WatcherInv, PollIsExclusive
    <2>6. WatcherInv'
      BY <1>2, <2>1, <2>3, <2>4
      DEF UnregisterFile, FinishDestroy, watcher, Inv, Typing, WatcherInv,
          PollIsExclusive, Initialising
    <2> QED BY <2>5, <2>6 DEF Inv
  <1>3. CASE UnregisterLast
    <2>1. DOMAIN fileInfo' = {}
      BY <1>3 DEF UnregisterLast, StopsWatcher
    <2> QED
      BY <1>3, <2>1
      DEF UnregisterLast, StopsWatcher, watcher, managers, Inv, Typing,
          WatcherInv, PollIsExclusive, Initialising, StillToDestroy
  <1>4. CASE JoinWatcher
    <2>1. DOMAIN fileInfo = {} /\ ~ isRunning
      BY <1>4 DEF JoinWatcher, Inv, WatcherInv, StillToDestroy, Initialising
    <2>2. /\ DOMAIN fileInfo' = {} /\ ~ isRunning' /\ isRunning' \in BOOLEAN
          /\ mutex' = "none" /\ watcherPc' = "none" /\ left' = left
          /\ mainPc' \in {"release", "done"}
      BY <1>4, <2>1 DEF JoinWatcher, FinishDestroy, Inv, Typing
    <2>3. Typing'
      BY <1>4, <2>2 DEF JoinWatcher, FinishDestroy, Inv, Typing
    <2>4. WatcherInv'
      BY <2>2 DEF WatcherInv, PollIsExclusive, Initialising
    <2> QED BY <2>3, <2>4 DEF Inv
  <1> QED BY <1>1, <1>2, <1>3, <1>4

\* The operators' steps change nothing the invariant is about.
LEMMA WorldStep ==
    ASSUME Inv,
           \/ Tick \/ UNCHANGED vars
           \/ \E f \in File : Edit(f) \/ Remove(f)
    PROVE  Inv'
  <1>1. UNCHANGED <<main, watcher, managers, fileInfo, isRunning, mutex>>
    BY DEF Tick, Edit, Remove, vars
  <1> QED
    BY <1>1
    DEF main, watcher, managers, Inv, Typing, WatcherInv, PollIsExclusive,
        Initialising, StillToDestroy

\* Every step of the watcher, of main and of the operators keeps Inv.
THEOREM Invariance == Spec => []Inv
  <1>1. Inv /\ [Next]_vars => Inv'
    BY WatcherStep, InitialisingStep, DestroyingStep, WorldStep DEF Next, Main
  <1> QED BY InitInv, <1>1, PTL DEF Spec

\* For any files and orders, no file is registered or unregistered under the
\* watcher's loop over the map: whoever wants to waits for the mutex.
THEOREM PollsOneMap == Spec => PollSeesOneMap
  <1>1. Inv /\ [Next]_vars => [LoopUndisturbed]_vars
    <2> SUFFICES ASSUME Inv, Next, watcherPc \in {"poll", "callback"}
                 PROVE  /\ DOMAIN fileInfo' = DOMAIN fileInfo
                        /\ \A f \in DOMAIN fileInfo : fileInfo'[f] # fileInfo[f] =>
                              watcherPc = "callback" /\ polled.file = f
      BY DEF LoopUndisturbed
    <2>1. mutex = "watcher"
      BY DEF Inv, WatcherInv, PollIsExclusive
    <2>2. CASE Main
      <3>1. UNCHANGED fileInfo
        BY <2>1, <2>2
        DEF Main, LoadConf, StatConf, RegisterFile, ReleaseFirst, UnregisterFile,
            UnregisterLast, JoinWatcher, Inv, WatcherInv
      <3> QED BY <3>1
    <2>3. CASE Watcher
      <3>1. CASE Reload
        BY <3>1 DEF Reload
      <3>2. CASE UNCHANGED fileInfo
        BY <3>2
      <3> QED BY <2>3, <3>1, <3>2 DEF Watcher, TestRunning, StartPoll, EndPoll, PollFile
    <2>4. CASE UNCHANGED fileInfo
      BY <2>4
    <2> QED BY <2>2, <2>3, <2>4 DEF Next, Tick, Edit, Remove, Quit
  <1> QED BY <1>1, Invariance, PTL DEF Spec, PollSeesOneMap

\* No callback of a manager that was destroyed, except one that frees its
\* state before it unregisters.
THEOREM CallbackSafe == Spec => []CallbackFindsManager
  <1>1. Inv => CallbackFindsManager
    BY DEF Inv, Typing, WatcherInv, CallbackFindsManager
  <1> QED BY <1>1, Invariance, PTL

\* When the program ends no file is registered and the thread is joined.
THEOREM ExitJoined == Spec => []JoinedAtExit
  <1>1. Inv => JoinedAtExit
    BY DEF Inv, Typing, WatcherInv, JoinedAtExit, StillToDestroy, Initialising
  <1> QED BY <1>1, Invariance, PTL

\* The invariant that the run checks: who holds the mutex, which files can be
\* registered, and that the thread runs exactly while one is.
THEOREM WatcherInvariant == Spec => []WatcherInv
  <1>1. Inv => WatcherInv
    BY DEF Inv
  <1> QED BY <1>1, Invariance, PTL
-----------------------------------------------------------------------------
(* Types of everything: Typing is part of them, the rest is Data.          *)
Data ==
    /\ now \in 1..MaxTime
    /\ disk \in [File -> Content]
    /\ edits \in 0..MaxEdits
    /\ loaded \in [File -> Content]
    /\ reloaded \subseteq File /\ released \subseteq File
    /\ \A f \in DOMAIN fileInfo : fileInfo[f] \in 0..MaxTime
    /\ stamp \in 0..MaxTime
    /\ watcherPc # "callback" => polled = NotPolled
    /\ watcherPc = "callback" =>
            polled \in [file : File, sec : 0..MaxTime, torn : BOOLEAN]

LEMMA DataInit == Init => Data
  <1> SUFFICES ASSUME Init PROVE Data
    OBVIOUS
  <1>1. Gone \in Content /\ [version |-> 0, sec |-> 1, valid |-> TRUE] \in Content
    BY BoundsAssumption DEF Gone, Content
  <1>2. disk \in [File -> Content] /\ loaded \in [File -> Content]
    BY <1>1 DEF Init
  <1>3. /\ now = 1 /\ edits = 0 /\ stamp = 0 /\ watcherPc = "none"
        /\ reloaded = {} /\ released = {} /\ DOMAIN fileInfo = {}
        /\ polled = NotPolled
    BY DEF Init
  <1> QED BY <1>2, <1>3, BoundsAssumption DEF Data

LEMMA TimesReadInRange ==
    ASSUME NEW sec \in 0..MaxTime, NEW racing \in BOOLEAN
    PROVE  TimesRead(sec, racing) \subseteq 0..MaxTime
  BY BoundsAssumption DEF TimesRead

LEMMA SecInRange ==
    ASSUME NEW c \in Content
    PROVE  c.sec \in 0..MaxTime
  BY DEF Content

LEMMA DataWorld ==
    ASSUME Data, Tick \/ UNCHANGED vars \/ (\E f \in File : Edit(f) \/ Remove(f))
    PROVE  Data'
  <1> USE BoundsAssumption
  <1>1. CASE Tick
    BY <1>1 DEF Tick, Data, main, watcher, managers
  <1>2. CASE UNCHANGED vars
    BY <1>2 DEF vars, world, main, watcher, managers, Data
  <1>3. ASSUME NEW f \in File, Edit(f) PROVE Data'
    <2>1. edits' \in 0..MaxEdits
      BY <1>3 DEF Edit, Data
    <2>2. disk' \in [File -> Content]
      BY <1>3, <2>1 DEF Edit, Data, Content
    <2> QED BY <1>3, <2>1, <2>2 DEF Edit, Data, main, watcher, managers
  <1>4. ASSUME NEW f \in File, Remove(f) PROVE Data'
    <2>1. disk' \in [File -> Content]
      BY <1>4 DEF Remove, Data, Content, Gone
    <2> QED BY <1>4, <2>1 DEF Remove, Data, main, watcher, managers
  <1> QED BY <1>1, <1>2, <1>3, <1>4

LEMMA DataMain ==
    ASSUME Inv, Data, Main \/ Quit
    PROVE  Data'
  <1> USE OrdersAreFiles
  <1>1. CASE LoadConf
    <2>1. InitFile \in File
      BY <1>1 DEF LoadConf, Inv, Typing, InitFile
    <2>2. loaded' = [loaded EXCEPT ![InitFile] = disk[InitFile]] \/ loaded' = loaded
      BY <1>1 DEF LoadConf
    <2>3. loaded' \in [File -> Content]
      BY <2>1, <2>2 DEF Data
    <2> QED BY <1>1, <2>3 DEF LoadConf, Data, world, watcher
  <1>2. CASE StatConf
    <2>1. InitFile \in File
      BY <1>2 DEF StatConf, Inv, Typing, InitFile
    <2>2. disk[InitFile].sec \in 0..MaxTime
      BY <2>1, SecInRange DEF Data
    <2>3. (left # {}) \in BOOLEAN
      OBVIOUS
    <2>4. stamp' \in 0..MaxTime
      BY <1>2, <2>2, <2>3, TimesReadInRange DEF StatConf
    <2> QED BY <1>2, <2>4 DEF StatConf, Data, world, watcher, managers
  <1>3. CASE RegisterFile
    <2>1. \A f \in DOMAIN fileInfo' : fileInfo'[f] \in 0..MaxTime
      BY <1>3 DEF RegisterFile, Data
    <2>2. watcherPc' # "callback" \/ watcherPc' = watcherPc
      BY <1>3 DEF RegisterFile
    <2>3. watcherPc = "callback" => watcherPc' = "callback"
      BY <1>3 DEF RegisterFile, Inv, Typing, WatcherInv, PollIsExclusive
    <2> QED BY <1>3, <2>1, <2>2, <2>3 DEF RegisterFile, Data, world, managers
  <1>4. CASE ReleaseFirst
    BY <1>4, OrderAssumption DEF ReleaseFirst, Data, world, watcher
  <1>5. ASSUME UnregisterFile \/ UnregisterLast PROVE Data'
    <2>1. DestroyFile \in File
      BY <1>5 DEF UnregisterFile, UnregisterLast, Inv, Typing, DestroyFile
    <2>2. \A f \in DOMAIN fileInfo' : f \in DOMAIN fileInfo /\ fileInfo'[f] = fileInfo[f]
      BY <1>5 DEF UnregisterFile, UnregisterLast, WithoutFile, Restrict
    <2>3. released' \subseteq File
      BY <1>5, <2>1
      DEF UnregisterFile, UnregisterLast, FinishDestroy, managers, Data
    <2> QED
      BY <1>5, <2>2, <2>3
      DEF UnregisterFile, UnregisterLast, Data, world, watcher, managers
  <1>6. CASE JoinWatcher
    <2>1. DestroyFile \in File
      BY <1>6 DEF JoinWatcher, Inv, Typing, DestroyFile
    <2>2. released' \subseteq File
      BY <1>6, <2>1 DEF JoinWatcher, FinishDestroy, Data
    <2> QED BY <1>6, <2>2 DEF JoinWatcher, Data, world
  <1>7. CASE Quit
    BY <1>7 DEF Quit, Data, world, watcher, managers
  <1> QED BY <1>1, <1>2, <1>3, <1>4, <1>5, <1>6, <1>7 DEF Main

LEMMA DataWatcher ==
    ASSUME Inv, Data, Watcher
    PROVE  Data'
  <1>1. CASE TestRunning \/ StartPoll \/ EndPoll
    BY <1>1 DEF TestRunning, StartPoll, EndPoll, Data, world, main, managers
  <1>2. ASSUME NEW f \in File, PollFile(f) PROVE Data'
    <2>1. PICK sec \in TimesRead(disk[f].sec, mainPc = "stat") :
            IF sec = fileInfo[f]
            THEN UNCHANGED <<watcherPc, polled>>
            ELSE /\ watcherPc' = "callback"
                 /\ polled' = [file |-> f, sec |-> sec, torn |-> sec # disk[f].sec]
      BY <1>2 DEF PollFile
    <2>2. disk[f].sec \in 0..MaxTime /\ (mainPc = "stat") \in BOOLEAN
      BY SecInRange DEF Data
    <2>3. sec \in 0..MaxTime
      BY <2>2, TimesReadInRange
    <2>4. (sec # disk[f].sec) \in BOOLEAN
      OBVIOUS
    <2>5. [file |-> f, sec |-> sec, torn |-> sec # disk[f].sec]
            \in [file : File, sec : 0..MaxTime, torn : BOOLEAN]
      BY <2>3, <2>4
    <2>6. watcherPc = "poll"
      BY <1>2 DEF PollFile
    <2>7. CASE UNCHANGED <<watcherPc, polled>>
      BY <1>2, <2>7 DEF PollFile, Data, world, main, managers
    <2>8. CASE watcherPc' = "callback" /\ sec # fileInfo[f]
      BY <1>2, <2>1, <2>5, <2>8 DEF PollFile, Data, world, main, managers
    <2> QED BY <2>1, <2>7, <2>8
  <1>3. CASE Reload
    <2>1. polled.file \in File /\ polled.sec \in 0..MaxTime
      BY <1>3 DEF Reload, Data
    <2>2. loaded' \in [File -> Content]
      BY <1>3, <2>1 DEF Reload, Data
    <2>3. reloaded' \subseteq File
      BY <1>3, <2>1 DEF Reload, ReloadedWith, Data
    <2>4. \A f \in DOMAIN fileInfo' : fileInfo'[f] \in 0..MaxTime
      BY <1>3, <2>1 DEF Reload, Data
    <2> QED BY <1>3, <2>2, <2>3, <2>4 DEF Reload, Data, world, main
  <1> QED BY <1>1, <1>2, <1>3 DEF Watcher

\* Contents, times and what the watcher polls keep their types.
THEOREM DataInvariance == Spec => [](Inv /\ Data)
  <1>1. Inv /\ Data /\ [Next]_vars => Data'
    BY DataWorld, DataMain, DataWatcher DEF Next
  <1> QED BY DataInit, Invariance, <1>1, PTL DEF Spec

\* Type correctness.
THEOREM TypeCorrect == Spec => []TypeOK
  <1> SUFFICES ASSUME Inv, Data PROVE TypeOK
    BY DataInvariance, PTL
  <1>1. DOMAIN InitOrder = 1..Len(InitOrder) /\ DOMAIN DestroyOrder = 1..Len(DestroyOrder)
    BY OrderAssumption
  <1>2. \/ polled = NotPolled /\ watcherPc # "callback"
        \/ polled \in [file : DOMAIN fileInfo, sec : 0..MaxTime, torn : BOOLEAN]
    BY DEF Inv, Typing, Data
  <1> QED BY <1>1, <1>2 DEF Inv, Typing, Data, TypeOK
-----------------------------------------------------------------------------
(* What the watcher thread has loaded is never newer than the disk, and    *)
(* never older than the time recorded for it.                              *)

\* A file that is there is from sec or later.
NotBefore(f, sec) == disk[f] # Gone => sec <= disk[f].sec

\* While managers are initialised, the watcher knows only those that were.
KnownInOrder ==
    mainPc \in {"load", "stat", "register"} =>
        reloaded \union DOMAIN fileInfo \subseteq {InitOrder[i] : i \in 1..(turn - 1)}

Times ==
    /\ \A f \in File : disk[f].sec <= now
    /\ \A f \in reloaded : loaded[f].sec <= now /\ NotBefore(f, loaded[f].sec)
    /\ \A f \in reloaded \intersect DOMAIN fileInfo : fileInfo[f] <= loaded[f].sec
    /\ watcherPc = "callback" /\ ~ polled.torn =>
            polled.sec <= now /\ NotBefore(polled.file, polled.sec)
    /\ KnownInOrder

LEMMA TimesInit == Init => Times
  <1> SUFFICES ASSUME Init PROVE Times
    OBVIOUS
  <1>1. now = 1 /\ reloaded = {} /\ DOMAIN fileInfo = {} /\ watcherPc = "none"
    BY DEF Init
  <1>2. \A f \in File : disk[f].sec <= 1
    BY DEF Init, Gone
  <1> QED BY <1>1, <1>2 DEF Times, KnownInOrder

\* The manager that is being initialised is not known to the watcher.
LEMMA InitFileIsNew ==
    ASSUME Inv, Data, Times, mainPc \in {"load", "stat", "register"}
    PROVE  InitFile \in File /\ InitFile \notin reloaded
  <1>1. turn \in 1..Len(InitOrder)
    BY DEF Inv, Typing
  <1>2. InitFile \in File
    BY <1>1, OrdersAreFiles DEF InitFile
  <1>3. DOMAIN InitOrder = 1..Len(InitOrder)
    BY OrderAssumption
  <1>4. ASSUME NEW i \in 1..(turn - 1) PROVE InitOrder[i] # InitOrder[turn]
    <2>1. i \in DOMAIN InitOrder /\ turn \in DOMAIN InitOrder /\ i # turn
      BY <1>1, <1>3, OrdersAreFiles
    <2> QED BY <2>1, OrderAssumption
  <1> QED BY <1>2, <1>4 DEF Times, KnownInOrder, InitFile

LEMMA TimesWorld ==
    ASSUME Data, Times, Tick \/ UNCHANGED vars \/ (\E f \in File : Edit(f) \/ Remove(f))
    PROVE  Times'
  <1> USE BoundsAssumption
  <1>0. /\ now \in Nat
        /\ \A f \in File : disk[f].sec \in Nat /\ loaded[f].sec \in Nat
        /\ watcherPc = "callback" => polled.file \in File /\ polled.sec \in Nat
    BY SecInRange DEF Data
  <1>1. CASE Tick
    <2>1. now' = now + 1
          /\ UNCHANGED <<disk, main, watcher, managers, fileInfo>>
      BY <1>1 DEF Tick
    <2> QED BY <1>0, <2>1
          DEF Times, KnownInOrder, NotBefore, main, watcher, managers, Data
  <1>2. CASE UNCHANGED vars
    BY <1>2
    DEF vars, world, main, watcher, managers, Times, KnownInOrder, NotBefore
  <1>3. ASSUME NEW f \in File, Edit(f) \/ Remove(f) PROVE Times'
    <2>1. UNCHANGED <<now, main, watcher, managers, fileInfo>>
      BY <1>3 DEF Edit, Remove
    <2>2. \A g \in File :
            \/ disk'[g] = disk[g]
            \/ disk'[g] = Gone
            \/ disk'[g].sec = now
      BY <1>3 DEF Edit, Remove, Data
    <2>3. \A g \in File : disk'[g].sec <= now
      BY <1>0, <2>2 DEF Times, Gone
    <2>4. ASSUME NEW g \in File, NEW sec \in Nat, sec <= now, NotBefore(g, sec)
          PROVE  disk'[g] # Gone => sec <= disk'[g].sec
      BY <1>0, <2>2, <2>4 DEF NotBefore
    <2>5. KnownInOrder'
      BY <2>1 DEF Times, KnownInOrder, main, managers
    <2>6. \A g \in reloaded : loaded[g].sec <= now
            /\ (disk'[g] # Gone => loaded[g].sec <= disk'[g].sec)
      BY <1>0, <2>4 DEF Times, Data
    <2>7. watcherPc = "callback" /\ ~ polled.torn =>
             /\ polled.sec <= now
             /\ disk'[polled.file] # Gone => polled.sec <= disk'[polled.file].sec
      BY <1>0, <2>4 DEF Times
    <2> QED
      BY <2>1, <2>3, <2>5, <2>6, <2>7 DEF Times, NotBefore, watcher, managers
  <1> QED BY <1>1, <1>2, <1>3

\* Only a manager's own load, before the watcher knows it, touches loaded.
LEMMA TimesMain ==
    ASSUME Inv, Data, Times, Main \/ Quit
    PROVE  Times'
  <1>1. UNCHANGED <<world, reloaded, polled>>
    BY DEF Main, LoadConf, StatConf, RegisterFile, Quit, ReleaseFirst,
           UnregisterFile, UnregisterLast, JoinWatcher, watcher, managers
  <1>2. watcherPc' = "callback" => watcherPc = "callback"
    BY DEF Main, LoadConf, StatConf, RegisterFile, Quit, ReleaseFirst,
           UnregisterFile, UnregisterLast, JoinWatcher, watcher
  <1>3. \A f \in reloaded : loaded'[f] = loaded[f]
    <2>1. CASE LoadConf
      <3>1. InitFile \notin reloaded
        BY <2>1, InitFileIsNew DEF LoadConf
      <3>2. loaded' = [loaded EXCEPT ![InitFile] = disk[InitFile]] \/ loaded' = loaded
        BY <2>1 DEF LoadConf
      <3> QED BY <3>1, <3>2 DEF Data
    <2>2. CASE loaded' = loaded
      BY <2>2
    <2> QED
      BY <2>1, <2>2 DEF Main, StatConf, RegisterFile, Quit, ReleaseFirst,
           UnregisterFile, UnregisterLast, JoinWatcher, managers
  <1>4. \A f \in reloaded \intersect DOMAIN fileInfo' :
            f \in DOMAIN fileInfo /\ fileInfo'[f] = fileInfo[f]
    <2>1. CASE RegisterFile
      <3>1. InitFile \notin reloaded
        BY <2>1, InitFileIsNew DEF RegisterFile
      <3> QED BY <2>1, <3>1 DEF RegisterFile
    <2>2. CASE UnregisterFile \/ UnregisterLast
      BY <2>2 DEF UnregisterFile, UnregisterLast, WithoutFile, Restrict
    <2>3. CASE fileInfo' = fileInfo
      BY <2>3
    <2> QED
      BY <2>1, <2>2, <2>3 DEF Main, LoadConf, StatConf, Quit, ReleaseFirst, JoinWatcher
  <1>5. KnownInOrder'
    <2>1. CASE LoadConf
      BY <1>1, <2>1 DEF LoadConf, Times, KnownInOrder
    <2>2. CASE StatConf
      <3>1. turn' \in {turn, turn + 1} /\ fileInfo' = fileInfo
        BY <2>2 DEF StatConf, NextInit
      <3>2. turn \in Nat /\ mainPc = "stat"
        BY <2>2 DEF StatConf, Inv, Typing
      <3> QED BY <1>1, <3>1, <3>2 DEF Times, KnownInOrder
    <2>3. CASE RegisterFile
      <3>1. /\ mainPc' \in {"load", "serve"}
            /\ mainPc' = "load" => turn' = turn + 1
        BY <2>3 DEF RegisterFile, NextInit
      <3>2. turn \in Nat /\ turn >= 1 /\ mainPc = "register"
        BY <2>3 DEF RegisterFile, Inv, Typing
      <3>3. DOMAIN fileInfo' = DOMAIN fileInfo \union {InitOrder[turn]}
        BY <2>3 DEF RegisterFile, InitFile
      <3> QED BY <1>1, <3>1, <3>2, <3>3 DEF Times, KnownInOrder
    <2>4. CASE mainPc' \notin {"load", "stat", "register"}
      BY <2>4 DEF KnownInOrder
    <2> QED
      BY <2>1, <2>2, <2>3, <2>4 DEF Main, Quit, ReleaseFirst, UnregisterFile,
         UnregisterLast, JoinWatcher, FinishDestroy
  <1> QED
    BY <1>1, <1>2, <1>3, <1>4, <1>5 DEF Times, NotBefore, world, Data

\* The stat comes before the reload: what is loaded is not older than the time
\* recorded for it.
LEMMA TimesWatcher ==
    ASSUME Inv, Data, Times, Watcher
    PROVE  Times'
  <1>0. /\ now \in Nat
        /\ \A f \in File : disk[f].sec \in Nat /\ loaded[f].sec \in Nat
    BY SecInRange, BoundsAssumption DEF Data
  <1>1. CASE TestRunning \/ StartPoll \/ EndPoll
    BY <1>1 DEF TestRunning, StartPoll, EndPoll, Times, KnownInOrder, NotBefore,
                world, main, managers
  <1>2. ASSUME NEW f \in File, PollFile(f) PROVE Times'
    <2>1. UNCHANGED <<world, main, managers, fileInfo>>
      BY <1>2 DEF PollFile
    <2>2. \/ UNCHANGED <<watcherPc, polled>>
          \/ /\ polled'.file = f
             /\ ~ polled'.torn => polled'.sec = disk[f].sec
      <3>1. PICK sec \in TimesRead(disk[f].sec, mainPc = "stat") :
              IF sec = fileInfo[f]
              THEN UNCHANGED <<watcherPc, polled>>
              ELSE /\ watcherPc' = "callback"
                   /\ polled' = [file |-> f, sec |-> sec, torn |-> sec # disk[f].sec]
        BY <1>2 DEF PollFile
      <3>2. CASE polled' = [file |-> f, sec |-> sec, torn |-> sec # disk[f].sec]
        <4>1. polled'.file = f /\ polled'.sec = sec /\ polled'.torn = (sec # disk[f].sec)
          BY <3>2
        <4> QED BY <4>1
      <3> QED BY <3>1, <3>2
    <2>3. KnownInOrder'
      BY <2>1 DEF Times, KnownInOrder, main, managers
    <2>4. watcherPc' = "callback" /\ ~ polled'.torn =>
             /\ polled'.sec <= now
             /\ disk[polled'.file] # Gone => polled'.sec <= disk[polled'.file].sec
      BY <1>0, <2>2 DEF Times, NotBefore
    <2> QED BY <2>1, <2>3, <2>4 DEF Times, NotBefore, world, managers
  <1>3. CASE Reload
    <2> DEFINE f == polled.file
    <2>1. /\ watcherPc = "callback" /\ f \in File /\ f \in DOMAIN fileInfo
          /\ polled.sec \in Nat
      BY <1>3 DEF Reload, Data, Inv, Typing
    <2>2. UNCHANGED <<world, main>> /\ watcherPc' = "poll"
      BY <1>3 DEF Reload
    <2>3. CASE disk[f].valid
      <3>1. disk[f] # Gone
        BY <2>3 DEF Gone
      <3>2. /\ \A g \in File : loaded'[g] = IF g = f THEN disk[f] ELSE loaded[g]
            /\ \A g \in DOMAIN fileInfo :
                  fileInfo'[g] = IF g = f THEN polled.sec ELSE fileInfo[g]
            /\ DOMAIN fileInfo' = DOMAIN fileInfo
            /\ reloaded' = IF polled.torn THEN reloaded \ {f} ELSE reloaded \union {f}
        BY <1>3, <2>3, <2>1 DEF Reload, ReloadedWith, Data
      <3>3. \A g \in reloaded' : loaded'[g].sec <= now /\ (disk[g] # Gone => loaded'[g].sec <= disk[g].sec)
        BY <1>0, <2>1, <3>2 DEF Times, NotBefore, Data
      <3>4. \A g \in reloaded' \intersect DOMAIN fileInfo' : fileInfo'[g] <= loaded'[g].sec
        BY <1>0, <2>1, <3>1, <3>2 DEF Times, NotBefore, Data
      <3>5. KnownInOrder'
        BY <2>1, <2>2, <3>2 DEF Times, KnownInOrder, main
      <3> QED BY <2>2, <3>3, <3>4, <3>5 DEF Times, NotBefore, world
    <2>4. CASE ~ disk[f].valid
      BY <1>3, <2>2, <2>4
      DEF Reload, Times, NotBefore, KnownInOrder, world, main
    <2> QED BY <2>3, <2>4
  <1> QED BY <1>1, <1>2, <1>3 DEF Watcher

\* What is loaded is no older than the time recorded for it, once reloaded.
THEOREM TimesInvariance == Spec => [](Inv /\ Data /\ Times)
  <1>1. Inv /\ Data /\ Times /\ [Next]_vars => Times'
    BY TimesWorld, TimesMain, TimesWatcher DEF Next
  <1> QED BY TimesInit, DataInvariance, <1>1, PTL DEF Spec

\* Once the watcher has reloaded a file, an edit goes unnoticed only within
\* the second of the edit that was loaded: the recorded time is not after the
\* loaded edit, which is not after the one on disk.
THEOREM UnnoticedWithinSecond == Spec => []UnnoticedOnlyWithinSecond
  <1>1. Inv /\ Data /\ Times => UnnoticedOnlyWithinSecond
    <2> SUFFICES ASSUME Data, Times, NEW f \in reloaded, Unnoticed(f)
                 PROVE  loaded[f].sec = disk[f].sec
      BY DEF UnnoticedOnlyWithinSecond
    <2>1. disk[f] # Gone
      BY DEF Unnoticed, Gone
    <2>2. /\ f \in File /\ disk[f].sec \in Nat /\ loaded[f].sec \in Nat
          /\ f \in DOMAIN fileInfo /\ fileInfo[f] = disk[f].sec
      BY SecInRange, BoundsAssumption DEF Data, Unnoticed
    <2>3. loaded[f].sec <= disk[f].sec /\ disk[f].sec <= loaded[f].sec
      BY <2>1, <2>2 DEF Times, NotBefore
    <2> QED BY <2>2, <2>3
  <1> QED BY <1>1, TimesInvariance, PTL
=============================================================================
