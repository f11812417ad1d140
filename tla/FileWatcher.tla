---------------------------- MODULE FileWatcher -----------------------------
(***************************************************************************)
(* The file watcher (file_watcher.cpp) with the managers that use it: the  *)
(* main thread loads and registers one configuration file per manager      *)
(* (DialogManager::init), serves, and destroys the managers again          *)
(* (DialogManager::~DialogManager); the watcher thread polls the files and *)
(* has a manager reload its file; operators edit the files at any time.    *)
(*                                                                         *)
(* Modification times have the granularity of ctime(), one second.  The    *)
(* one-second sleep between two polls is a delay of any length.  ctime()   *)
(* formats into one static buffer, so two threads that read a modification *)
(* time at once may read any time.                                         *)
(***************************************************************************)
EXTENDS Naturals, Sequences, FiniteSets, Functions

CONSTANTS
    File,           \* the watched configuration files, one per manager
    NoFile,         \* no file is being reloaded
    InitOrder,      \* the order in which the managers are initialised
    DestroyOrder,   \* the order in which they are destroyed
    ReleasesFirst,  \* managers that free what a reload uses before they
                    \* unregister the file (TokenManager and its cache)
    MaxEdits,       \* bound: edits of all files together
    MaxTime         \* bound: seconds

ASSUME OrderAssumption ==
    /\ InitOrder \in Seq(File) /\ DestroyOrder \in Seq(File)
    /\ Len(InitOrder) > 0 /\ Len(DestroyOrder) > 0
    /\ Range(DestroyOrder) = File
    /\ \A i, j \in DOMAIN InitOrder : InitOrder[i] = InitOrder[j] => i = j
    /\ ReleasesFirst \subseteq File
ASSUME NoFileAssumption == NoFile \notin File
ASSUME BoundsAssumption == MaxEdits \in Nat /\ MaxTime \in Nat \ {0}

\* A file's content: which edit made it, when, and whether it can be loaded.
Content == [version : 0..MaxEdits, sec : 0..MaxTime, valid : BOOLEAN]

\* A file that is not there; its modification time is the empty string.
Gone == [version |-> 0, sec |-> 0, valid |-> FALSE]

VARIABLES
    now,         \* the clock, in seconds
    disk,        \* content of each file
    edits,       \* how often a file has been edited
    loaded,      \* what each manager works with (Gone: nothing yet)
    reloaded,    \* history: managers whose content the watcher thread has
                 \* loaded, for a modification time it read right
    released,    \* managers whose state is freed
    fileInfo,    \* _file_info: the recorded modification times
    isRunning,   \* _is_running
    mutex,       \* holder of _mutex: "none", "main" or "watcher"
    mainPc,      \* where the main thread is
    turn,        \* index in InitOrder or DestroyOrder
    stamp,       \* modification time register_file read before it locks
    watcherPc,   \* where the watcher thread is ("none": no thread)
    left,        \* files the poll has still to look at
    polled       \* the file being reloaded, the modification time read, and
                 \* whether that may be torn

world == <<now, disk, edits>>
main == <<mainPc, turn, stamp>>
watcher == <<watcherPc, left, polled>>
managers == <<loaded, reloaded, released>>
vars == <<world, main, watcher, managers, fileInfo, isRunning, mutex>>

NotPolled == [file |-> NoFile, sec |-> 0, torn |-> FALSE]

Init ==
    /\ now = 1
    /\ disk \in [File -> {Gone, [version |-> 0, sec |-> 1, valid |-> TRUE]}]
    /\ edits = 0
    /\ loaded = [f \in File |-> Gone]
    /\ reloaded = {}
    /\ released = {}
    /\ fileInfo = [f \in {} |-> 0]
    /\ isRunning = FALSE
    /\ mutex = "none"
    /\ mainPc = "load"
    /\ turn = 1
    /\ stamp = 0
    /\ watcherPc = "none"
    /\ left = {}
    /\ polled = NotPolled
-----------------------------------------------------------------------------
(* The operators of the service.                                           *)

Tick ==
    /\ now < MaxTime
    /\ now' = now + 1
    /\ UNCHANGED <<disk, edits, main, watcher, managers, fileInfo, isRunning, mutex>>

\* A file is written, with a configuration that can be loaded or not.
Edit(f) ==
    /\ edits < MaxEdits
    /\ edits' = edits + 1
    /\ \E valid \in BOOLEAN :
          disk' = [disk EXCEPT ![f] =
                     [version |-> edits', sec |-> now, valid |-> valid]]
    /\ UNCHANGED <<now, main, watcher, managers, fileInfo, isRunning, mutex>>

Remove(f) ==
    /\ disk[f] # Gone
    /\ disk' = [disk EXCEPT ![f] = Gone]
    /\ UNCHANGED <<now, edits, main, watcher, managers, fileInfo, isRunning, mutex>>
-----------------------------------------------------------------------------
(* The main thread.                                                        *)

\* The time that get_file_last_modified_time may return for a file of time sec:
\* another one if a second thread is in ctime().  Without a file there is no
\* call of ctime().
TimesRead(sec, racing) ==
    {sec} \union IF racing /\ sec # 0 THEN 1..MaxTime ELSE {}

InitFile == InitOrder[turn]
DestroyFile == DestroyOrder[turn]

\* After the last manager is initialised the server runs.
NextInit ==
    IF turn < Len(InitOrder)
    THEN mainPc' = "load" /\ turn' = turn + 1
    ELSE mainPc' = "serve" /\ turn' = turn

\* init() of a manager loads its file; if that fails, init() of the
\* application fails and everything is destroyed.
LoadConf ==
    /\ mainPc = "load"
    /\ IF disk[InitFile].valid
       THEN /\ loaded' = [loaded EXCEPT ![InitFile] = disk[InitFile]]
            /\ mainPc' = "stat"
            /\ turn' = turn
       ELSE /\ mainPc' = "release"
            /\ turn' = 1
            /\ UNCHANGED loaded
    /\ UNCHANGED <<world, stamp, watcher, reloaded, released, fileInfo, isRunning, mutex>>

\* register_file reads the modification time; if it cannot, it returns -1,
\* which init() ignores.
StatConf ==
    /\ mainPc = "stat"
    /\ stamp' \in TimesRead(disk[InitFile].sec, left # {})
    /\ IF disk[InitFile] = Gone
       THEN NextInit
       ELSE mainPc' = "register" /\ turn' = turn
    /\ UNCHANGED <<world, watcher, managers, fileInfo, isRunning, mutex>>

\* Mutant: the thread is started but _is_running is not set.
RegisterWithoutFlag ==
    /\ mainPc = "register"
    /\ mutex = "none"
    /\ fileInfo' = [f \in DOMAIN fileInfo \union {InitFile} |->
                      IF f = InitFile THEN stamp ELSE fileInfo[f]]
    /\ watcherPc' = IF isRunning THEN watcherPc ELSE "test"
    /\ NextInit
    /\ UNCHANGED <<world, stamp, left, polled, managers, isRunning, mutex>>

\* register_file under the lock: record the file and start the thread.
RegisterFile ==
    /\ mainPc = "register"
    /\ mutex = "none"
    /\ fileInfo' = [f \in DOMAIN fileInfo \union {InitFile} |->
                      IF f = InitFile THEN stamp ELSE fileInfo[f]]
    /\ isRunning' = TRUE
    /\ watcherPc' = IF isRunning THEN watcherPc ELSE "test"
    /\ NextInit
    /\ UNCHANGED <<world, stamp, left, polled, managers, mutex>>

\* RunUntilAskedToQuit returns.
Quit ==
    /\ mainPc = "serve"
    /\ mainPc' = "release"
    /\ turn' = 1
    /\ UNCHANGED <<world, stamp, watcher, managers, fileInfo, isRunning, mutex>>

\* Mutant: every destructor frees its manager's state before it unregisters.
ReleaseFirstAlways ==
    /\ mainPc = "release"
    /\ released' = released \union {DestroyFile}
    /\ mainPc' = "unregister"
    /\ UNCHANGED <<world, turn, stamp, watcher, loaded, reloaded, fileInfo, isRunning, mutex>>

\* A destructor that frees part of the manager's state before it unregisters.
ReleaseFirst ==
    /\ mainPc = "release"
    /\ released' = released \union ({DestroyFile} \intersect ReleasesFirst)
    /\ mainPc' = "unregister"
    /\ UNCHANGED <<world, turn, stamp, watcher, loaded, reloaded, fileInfo, isRunning, mutex>>

\* The destructor ends, and the next manager is destroyed.
FinishDestroy ==
    /\ released' = released \union {DestroyFile}
    /\ IF turn < Len(DestroyOrder)
       THEN mainPc' = "release" /\ turn' = turn + 1
       ELSE mainPc' = "done" /\ turn' = turn

WithoutFile == Restrict(fileInfo, DOMAIN fileInfo \ {DestroyFile})

\* Mutant: the map is tested for emptiness before the file is erased.
StopsWatcherIfEmptyBefore ==
    /\ DestroyFile \in DOMAIN fileInfo
    /\ DOMAIN fileInfo = {}
    /\ isRunning
    /\ watcherPc # "none"

\* The file was the only one, and there is a thread to stop.
StopsWatcher ==
    /\ DestroyFile \in DOMAIN fileInfo
    /\ DOMAIN WithoutFile = {}
    /\ isRunning
    /\ watcherPc # "none"

\* Mutant: the map is changed without the lock.
UnregisterUnlocked ==
    /\ mainPc = "unregister"
    /\ ~ StopsWatcher
    /\ fileInfo' = WithoutFile
    /\ FinishDestroy
    /\ UNCHANGED <<world, stamp, watcher, loaded, reloaded, isRunning, mutex>>

\* unregister_file of a file that is not the last one, or is not registered.
UnregisterFile ==
    /\ mainPc = "unregister"
    /\ mutex = "none"
    /\ ~ StopsWatcher
    /\ fileInfo' = WithoutFile
    /\ FinishDestroy
    /\ UNCHANGED <<world, stamp, watcher, loaded, reloaded, isRunning, mutex>>

\* unregister_file of the last file: the thread is told to stop and joined,
\* and the mutex is kept while main waits in join().
UnregisterLast ==
    /\ mainPc = "unregister"
    /\ mutex = "none"
    /\ StopsWatcher
    /\ fileInfo' = WithoutFile
    /\ isRunning' = FALSE
    /\ mutex' = "main"
    /\ mainPc' = "join"
    /\ UNCHANGED <<world, turn, stamp, watcher, managers>>

JoinWatcher ==
    /\ mainPc = "join"
    /\ watcherPc = "ended"
    /\ watcherPc' = "none"
    /\ mutex' = "none"
    /\ FinishDestroy
    /\ UNCHANGED <<world, stamp, left, polled, loaded, reloaded, fileInfo, isRunning>>

Main ==
    \/ LoadConf \/ StatConf \/ RegisterFile
    \/ ReleaseFirst \/ UnregisterFile \/ UnregisterLast \/ JoinWatcher
-----------------------------------------------------------------------------
(* The watcher thread.                                                     *)

\* The loop condition: while (_is_running).
TestRunning ==
    /\ watcherPc = "test"
    /\ watcherPc' = IF isRunning THEN "lock" ELSE "ended"
    /\ UNCHANGED <<world, main, left, polled, managers, fileInfo, isRunning, mutex>>

\* Mutant: the files are iterated without the lock.
StartPollUnlocked ==
    /\ watcherPc = "lock"
    /\ watcherPc' = "poll"
    /\ left' = DOMAIN fileInfo
    /\ UNCHANGED <<world, main, polled, managers, fileInfo, isRunning, mutex>>

\* The lock is taken and the files are iterated.
StartPoll ==
    /\ watcherPc = "lock"
    /\ mutex = "none"
    /\ mutex' = "watcher"
    /\ watcherPc' = "poll"
    /\ left' = DOMAIN fileInfo
    /\ UNCHANGED <<world, main, polled, managers, fileInfo, isRunning>>

\* stat of a file: the time read is the recorded one, or the callback is due.
PollFile(f) ==
    /\ watcherPc = "poll"
    /\ f \in left
    /\ left' = left \ {f}
    /\ \E sec \in TimesRead(disk[f].sec, mainPc = "stat") :
          IF sec = fileInfo[f]
          THEN UNCHANGED <<watcherPc, polled>>
          ELSE /\ watcherPc' = "callback"
               /\ polled' = [file |-> f, sec |-> sec, torn |-> sec # disk[f].sec]
    /\ UNCHANGED <<world, main, managers, fileInfo, isRunning, mutex>>

ReloadedWith(f) == IF polled.torn THEN reloaded \ {f} ELSE reloaded \union {f}

\* Mutant: the time of the reload is recorded, not the file's.
ReloadStampedNow ==
    LET f == polled.file
    IN  /\ watcherPc = "callback"
        /\ watcherPc' = "poll"
        /\ polled' = NotPolled
        /\ IF disk[f].valid
           THEN /\ loaded' = [loaded EXCEPT ![f] = disk[f]]
                /\ reloaded' = ReloadedWith(f)
                /\ fileInfo' = [fileInfo EXCEPT ![f] = now]
           ELSE UNCHANGED <<loaded, reloaded, fileInfo>>
        /\ UNCHANGED <<world, main, left, released, isRunning, mutex>>

\* Mutant: registered edge triggered, so a failed reload is not repeated.
ReloadEdgeTriggered ==
    LET f == polled.file
    IN  /\ watcherPc = "callback"
        /\ watcherPc' = "poll"
        /\ polled' = NotPolled
        /\ fileInfo' = [fileInfo EXCEPT ![f] = polled.sec]
        /\ IF disk[f].valid
           THEN /\ loaded' = [loaded EXCEPT ![f] = disk[f]]
                /\ reloaded' = ReloadedWith(f)
           ELSE UNCHANGED <<loaded, reloaded>>
        /\ UNCHANGED <<world, main, left, released, isRunning, mutex>>

\* The callback: the manager reloads the file as it is by now.  If it cannot
\* be loaded the old content stays in use and, the files being registered
\* level triggered, the recorded time too.
Reload ==
    LET f == polled.file
    IN  /\ watcherPc = "callback"
        /\ watcherPc' = "poll"
        /\ polled' = NotPolled
        /\ IF disk[f].valid
           THEN /\ loaded' = [loaded EXCEPT ![f] = disk[f]]
                /\ reloaded' = ReloadedWith(f)
                /\ fileInfo' = [fileInfo EXCEPT ![f] = polled.sec]
           ELSE UNCHANGED <<loaded, reloaded, fileInfo>>
        /\ UNCHANGED <<world, main, left, released, isRunning, mutex>>

\* Mutant: the thread sleeps with the lock held.
EndPollLocked ==
    /\ watcherPc = "poll"
    /\ left = {}
    /\ watcherPc' = "test"
    /\ UNCHANGED <<world, main, left, polled, managers, fileInfo, isRunning, mutex>>

\* The lock is released and the thread sleeps, then tests again.
EndPoll ==
    /\ watcherPc = "poll"
    /\ left = {}
    /\ mutex' = "none"
    /\ watcherPc' = "test"
    /\ UNCHANGED <<world, main, left, polled, managers, fileInfo, isRunning>>

Watcher ==
    \/ TestRunning \/ StartPoll \/ Reload \/ EndPoll
    \/ \E f \in File : PollFile(f)
-----------------------------------------------------------------------------
Next ==
    \/ Tick
    \/ \E f \in File : Edit(f) \/ Remove(f)
    \/ Quit
    \/ Main
    \/ Watcher

Spec == Init /\ [][Next]_vars

\* Both threads are scheduled, and main gets the mutex at last because the
\* watcher sleeps for a second each time it has released it.  Nobody has to
\* edit a file or press Ctrl-C.
FairSpec == Spec /\ SF_vars(Main) /\ WF_vars(Watcher)
-----------------------------------------------------------------------------
\* Type invariant.
TypeOK ==
    /\ now \in 1..MaxTime
    /\ disk \in [File -> Content]
    /\ edits \in 0..MaxEdits
    /\ loaded \in [File -> Content]
    /\ reloaded \subseteq File /\ released \subseteq File
    /\ DOMAIN fileInfo \subseteq File
    /\ \A f \in DOMAIN fileInfo : fileInfo[f] \in 0..MaxTime
    /\ isRunning \in BOOLEAN
    /\ mutex \in {"none", "main", "watcher"}
    /\ mainPc \in {"load", "stat", "register", "serve", "release",
                   "unregister", "join", "done"}
    /\ mainPc \in {"load", "stat", "register"} => turn \in DOMAIN InitOrder
    /\ mainPc \in {"release", "unregister", "join"} => turn \in DOMAIN DestroyOrder
    /\ stamp \in 0..MaxTime
    /\ watcherPc \in {"none", "test", "lock", "poll", "callback", "ended"}
    /\ left \subseteq DOMAIN fileInfo
    /\ \/ polled = NotPolled /\ watcherPc # "callback"
       \/ polled \in [file : DOMAIN fileInfo, sec : 0..MaxTime, torn : BOOLEAN]

\* The watcher's range-for loop over _file_info (lines 89-103) runs over one
\* map: until it ends nobody registers or unregisters a file, which would
\* invalidate its iterator, and only the loop itself records a time, of the
\* file it has just called back.
LoopUndisturbed ==
    watcherPc \in {"poll", "callback"} =>
        /\ DOMAIN fileInfo' = DOMAIN fileInfo
        /\ \A f \in DOMAIN fileInfo :
             fileInfo'[f] # fileInfo[f] => watcherPc = "callback" /\ polled.file = f

PollSeesOneMap == [][LoopUndisturbed]_vars

\* The watcher holds the mutex exactly in a poll.
PollIsExclusive ==
    watcherPc \in {"poll", "callback"} <=> mutex = "watcher"

\* A manager is never called back when it is destroyed: the destructor's
\* unregister_file returns only when no callback of the file is running and
\* none can start.  It holds of the managers that unregister before they free
\* anything; TokenManager does not (token_manager.cpp 26-28).
CallbackFindsManager ==
    watcherPc = "callback" =>
        polled.file \notin released \/ polled.file \in ReleasesFirst

\* The program does not end with a watcher thread: std::thread's destructor
\* would call terminate(), or the thread would use the destroyed map.
JoinedAtExit == mainPc = "done" => watcherPc = "none" /\ DOMAIN fileInfo = {}

\* The inductive invariant behind the properties above: who holds the
\* mutex, which files can still be registered while the managers go, and that
\* there is a running thread exactly while a file is registered.
Initialising == mainPc \in {"load", "stat", "register", "serve"}

StillToDestroy ==
    CASE Initialising -> File
      [] mainPc \in {"release", "unregister"} ->
            {DestroyOrder[i] : i \in turn..Len(DestroyOrder)}
      [] mainPc \in {"join", "done"} -> {}

WatcherInv ==
    /\ PollIsExclusive
    /\ mutex = "main" <=> mainPc = "join"
    /\ Initialising => released = {}
    /\ \A f \in released \intersect DOMAIN fileInfo : f \in ReleasesFirst
    /\ DOMAIN fileInfo \subseteq StillToDestroy
    /\ isRunning <=> DOMAIN fileInfo # {}
    /\ isRunning => watcherPc \notin {"none", "ended"}
    /\ ~ isRunning /\ mainPc # "join" => watcherPc = "none"
    /\ mainPc = "join" => watcherPc # "none"

\* The manager of a registered file works with another content than the valid
\* one on disk, and no poll will notice.
Unnoticed(f) ==
    /\ f \in DOMAIN fileInfo
    /\ ~ (watcherPc = "callback" /\ polled.file = f)
    /\ disk[f].valid
    /\ fileInfo[f] = disk[f].sec
    /\ loaded[f].version # disk[f].version

\* The stat comes before the reload (lines 92-98), so once the watcher has
\* reloaded a file, for a time it read right, an edit goes unnoticed only
\* within one second of the edit that was loaded.
UnnoticedOnlyWithinSecond ==
    \A f \in reloaded : Unnoticed(f) => loaded[f].sec = disk[f].sec

\* The manager of a registered file works with an older content than the
\* valid one on disk; neither the start-up nor the second hid the edit.
Behind(f) ==
    /\ mainPc = "serve"
    /\ f \in DOMAIN fileInfo
    /\ disk[f].valid
    /\ loaded[f].sec # disk[f].sec
    /\ f \in reloaded \/ fileInfo[f] = loaded[f].sec

UpToDate(f) == loaded[f].version = disk[f].version

\* A configuration that can be loaded is loaded in the end, also after failed
\* reloads of bad edits of the same second, unless the file changes again to
\* one that cannot be loaded or the server quits (lines 95-100).
ChangeIsLoaded ==
    \A f \in File :
        Behind(f) ~> UpToDate(f) \/ ~ disk[f].valid \/ mainPc # "serve"

\* main waits for the watcher while it holds what the watcher waits for.
JoinDeadlock == mainPc = "join" /\ watcherPc = "lock"

Quitting == mainPc \in {"release", "unregister", "join"}

\* The deadlock of join() under the mutex is the only thing that can keep the
\* managers' destruction from ending.
QuitsUnlessJoinDeadlock == Quitting ~> mainPc = "done" \/ JoinDeadlock

\* All managers have been initialised, so the server has run.
HasServed == \A i \in DOMAIN InitOrder : loaded[InitOrder[i]] # Gone

\* server.cpp line 110: "Wait until Ctrl-C is pressed, then Stop() and Join()
\* the server"; main then returns 0, and the program ends.  A running server
\* that is asked to quit ends.
QuitsWhenAsked == (HasServed /\ Quitting) ~> mainPc = "done"
=============================================================================
