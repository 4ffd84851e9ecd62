----------------------------- MODULE FileMonitor -----------------------------
(***************************************************************************)
(* orc/util/file_monitor.cc: threads ask for files to be observed and      *)
(* forgotten through a queue of commands; a worker thread applies the      *)
(* commands and calls the actions of the files inotify reports.            *)
(*                                                                         *)
(* A cookie is a number; freshly allocated ones are new numbers.  Callers  *)
(* forget a cookie once, and only one they got since the last Start.       *)
(***************************************************************************)
EXTENDS Naturals, Sequences, FiniteSets

CONSTANTS
  FileDir,        \* file -> directory: GetDirAndBasename
  FileUsers,      \* threads that call Observe and Forget
  MaxCookies,     \* bound on Observe
  MaxFileEvents,  \* bound on the events inotify has queued
  MaxDirsGone,    \* bound on directories that are removed
  MaxMonitorStarts

VARIABLES
  status_, worker_stop_,
  worker,            \* [pc, cmds], cmds the batch it has taken
  cmds_,             \* queue of [type, cookie]
  cookies,           \* cookie -> its file, for every cookie ever made
  cookie_bookmark_,  \* the cookies that are alive
  name_entry_map_,   \* directory -> [wd, entries], entries the set of cookies
  wd_entry_map_,     \* watch -> directory of its entry
  watches,           \* external: the watches inotify holds, watch -> directory
  inotify,           \* external: queued events [wd, file]
  fileUser,          \* thread -> [pc, cookie, mine]
  monitorGhost,      \* misuse: the worker used a freed cookie; overlapped: a call
                     \* ran across a Stop; unwatched: cookies inotify refused
  monitorUsed        \* counts for the bounds: [starts, gone, wds]

lifeVars == <<status_, worker_stop_>>
cookieVars == <<cookies, cookie_bookmark_>>
tableVars == <<name_entry_map_, wd_entry_map_, watches>>
monitorVars == <<lifeVars, worker, cmds_, cookieVars, tableVars, inotify, fileUser,
                 monitorGhost, monitorUsed>>

MonitoredFiles == DOMAIN FileDir
NoCookie == 0
Without(f, x) == [y \in DOMAIN f \ {x} |-> f[y]]
With(f, x, v) == [y \in DOMAIN f \cup {x} |-> IF y = x THEN v ELSE f[y]]

MonitorInit ==
  /\ status_ = "stop" /\ worker_stop_ = FALSE
  /\ worker = [pc |-> "none", cmds |-> <<>>]
  /\ cmds_ = <<>> /\ cookies = <<>> /\ cookie_bookmark_ = {}
  /\ name_entry_map_ = <<>> /\ wd_entry_map_ = <<>> /\ watches = <<>> /\ inotify = <<>>
  /\ fileUser = [u \in FileUsers |-> [pc |-> "idle", cookie |-> NoCookie, mine |-> {}]]
  /\ monitorGhost = [misuse |-> FALSE, overlapped |-> FALSE, unwatched |-> {}]
  /\ monitorUsed = [starts |-> 0, gone |-> 0, wds |-> 0]

-----------------------------------------------------------------------------
(* Start and Stop, under status_mutex_.                                     *)

Start ==
  /\ status_ = "stop" /\ worker.pc = "none" /\ monitorUsed.starts < MaxMonitorStarts
  /\ status_' = "start" /\ worker_stop_' = FALSE
  /\ worker' = [pc |-> "loop", cmds |-> <<>>]
  /\ monitorUsed' = [monitorUsed EXCEPT !.starts = @ + 1]
  /\ UNCHANGED <<cmds_, cookieVars, tableVars, inotify, fileUser, monitorGhost>>

Stop ==
  /\ status_ = "start"
  /\ status_' = "stop" /\ worker_stop_' = TRUE
  /\ monitorGhost' = [monitorGhost EXCEPT !.overlapped = @ \/ \E u \in FileUsers : fileUser[u].pc # "idle"]
  /\ UNCHANGED <<worker, cmds_, cookieVars, tableVars, inotify, fileUser, monitorUsed>>

\* Slip: the cookies are freed, the queue of commands is left.
LeftoverKept(cmds) == cmds

Leftover(cmds) == <<>>

\* The rest of Stop, once the worker is joined: everything is dropped.
StopJoined ==
  /\ worker.pc = "exited"
  /\ worker' = [worker EXCEPT !.pc = "none"]
  /\ cmds_' = Leftover(cmds_)
  /\ name_entry_map_' = <<>> /\ wd_entry_map_' = <<>> /\ watches' = <<>> /\ inotify' = <<>>
  /\ cookie_bookmark_' = {}
  /\ fileUser' = [u \in FileUsers |-> [fileUser[u] EXCEPT !.mine = {}]]
  /\ UNCHANGED <<lifeVars, cookies, monitorGhost, monitorUsed>>

-----------------------------------------------------------------------------
(* Callers.  status_ is read without its mutex, ahead of the rest.          *)

ObserveCheck(u) ==
  /\ fileUser[u].pc = "idle" /\ status_ = "start" /\ Len(cookies) < MaxCookies
  /\ fileUser' = [fileUser EXCEPT ![u].pc = "observe"]
  /\ UNCHANGED <<lifeVars, worker, cmds_, cookieVars, tableVars, inotify, monitorGhost, monitorUsed>>

\* AcquireCookie, for a regular file.
ObserveAcquire(u, f) ==
  /\ fileUser[u].pc = "observe" /\ Len(cookies) < MaxCookies
  /\ cookies' = Append(cookies, f)
  /\ cookie_bookmark_' = cookie_bookmark_ \cup {Len(cookies')}
  /\ fileUser' = [fileUser EXCEPT ![u].pc = "queue observe", ![u].cookie = Len(cookies')]
  /\ UNCHANGED <<lifeVars, worker, cmds_, tableVars, inotify, monitorGhost, monitorUsed>>

\* No such file: nothing is observed.
ObserveFails(u) ==
  /\ fileUser[u].pc = "observe"
  /\ fileUser' = [fileUser EXCEPT ![u].pc = "idle"]
  /\ UNCHANGED <<lifeVars, worker, cmds_, cookieVars, tableVars, inotify, monitorGhost, monitorUsed>>

ForgetCheck(u, c) ==
  /\ fileUser[u].pc = "idle" /\ status_ = "start" /\ c \in fileUser[u].mine
  /\ fileUser' = [fileUser EXCEPT ![u] = [pc |-> "queue forget", cookie |-> c, mine |-> @.mine \ {c}]]
  /\ UNCHANGED <<lifeVars, worker, cmds_, cookieVars, tableVars, inotify, monitorGhost, monitorUsed>>

\* The end of Observe and of Forget: the command is queued.
Enqueue(u) ==
  LET c == fileUser[u].cookie
      observe == fileUser[u].pc = "queue observe"
  IN  /\ fileUser[u].pc \in {"queue observe", "queue forget"}
      /\ cmds_' = Append(cmds_, [type |-> IF observe THEN "Observe" ELSE "Forget", cookie |-> c])
      /\ fileUser' = [fileUser EXCEPT ![u] = [pc |-> "idle", cookie |-> NoCookie,
                        mine |-> IF observe THEN @.mine \cup {c} ELSE @.mine]]
      /\ UNCHANGED <<lifeVars, worker, cookieVars, tableVars, inotify, monitorGhost, monitorUsed>>

-----------------------------------------------------------------------------
(* The worker.                                                              *)

WorkLoop ==
  /\ worker.pc = "loop"
  /\ worker' = [worker EXCEPT !.pc = IF worker_stop_ THEN "exited" ELSE "commands"]
  /\ UNCHANGED <<lifeVars, cmds_, cookieVars, tableVars, inotify, fileUser, monitorGhost, monitorUsed>>

\* ProcessCommand: the queue is tested without the lock, and may look empty.
TakeCommands ==
  /\ worker.pc = "commands"
  /\ \/ worker' = [pc |-> "epoll", cmds |-> <<>>] /\ UNCHANGED cmds_
     \/ /\ cmds_ # <<>>
        /\ worker' = [pc |-> "process", cmds |-> cmds_]
        /\ cmds_' = <<>>
  /\ UNCHANGED <<lifeVars, cookieVars, tableVars, inotify, fileUser, monitorGhost, monitorUsed>>

CommandDone == worker' = [worker EXCEPT !.cmds = Tail(@), !.pc = IF Len(worker.cmds) = 1 THEN "epoll" ELSE @]

\* cookie->file is read.
Use(c) == [monitorGhost EXCEPT !.misuse = @ \/ c \notin cookie_bookmark_]

\* The entry of the directory may be there; its watch is not looked at.
ProcessObserve ==
  LET c == Head(worker.cmds).cookie
      dir == FileDir[cookies[c]]
      wd == monitorUsed.wds + 1
  IN  /\ worker.pc = "process" /\ Head(worker.cmds).type = "Observe"
      /\ CommandDone
      /\ \/ /\ dir \in DOMAIN name_entry_map_
            /\ name_entry_map_' = [name_entry_map_ EXCEPT ![dir].entries = @ \cup {c}]
            /\ monitorGhost' = Use(c)
            /\ UNCHANGED <<wd_entry_map_, watches, monitorUsed>>
         \/ /\ dir \notin DOMAIN name_entry_map_
            /\ name_entry_map_' = With(name_entry_map_, dir, [wd |-> wd, entries |-> {c}])
            /\ wd_entry_map_' = With(wd_entry_map_, wd, dir)
            /\ watches' = With(watches, wd, dir)
            /\ monitorUsed' = [monitorUsed EXCEPT !.wds = wd]
            /\ monitorGhost' = Use(c)
         \/ \* inotify_add_watch fails.
            /\ dir \notin DOMAIN name_entry_map_
            /\ monitorGhost' = [Use(c) EXCEPT !.unwatched = @ \cup {c}]
            /\ UNCHANGED <<tableVars, monitorUsed>>
      /\ UNCHANGED <<lifeVars, cmds_, cookieVars, inotify, fileUser>>

\* inotify_rm_watch; it fails when the watch is gone.
DroppedWatch(wd) == Without(watches, wd)

EntriesLeft(entries, c) == entries \ {c}

ProcessForget ==
  LET c == Head(worker.cmds).cookie
      dir == FileDir[cookies[c]]
      entry == name_entry_map_[dir]
      left == EntriesLeft(entry.entries, c)
  IN  /\ worker.pc = "process" /\ Head(worker.cmds).type = "Forget"
      /\ CommandDone
      /\ monitorGhost' = Use(c)
      /\ IF dir \in DOMAIN name_entry_map_
         THEN IF left = {}
              THEN /\ name_entry_map_' = Without(name_entry_map_, dir)
                   /\ wd_entry_map_' = Without(wd_entry_map_, entry.wd)
                   /\ watches' = DroppedWatch(entry.wd)
              ELSE /\ name_entry_map_' = [name_entry_map_ EXCEPT ![dir].entries = left]
                   /\ UNCHANGED <<wd_entry_map_, watches>>
         ELSE UNCHANGED tableVars
      /\ cookie_bookmark_' = cookie_bookmark_ \ {c}
      /\ UNCHANGED <<lifeVars, cmds_, cookies, inotify, fileUser, monitorUsed>>

\* ProcessInotify: every queued event of a known watch calls the actions of
\* the cookies of the file.  At a timeout there are none.
ProcessInotify ==
  /\ worker.pc = "epoll"
  /\ worker' = [worker EXCEPT !.pc = "loop"]
  /\ inotify' = <<>>
  /\ monitorGhost' = [monitorGhost EXCEPT !.misuse = @ \/ \E i \in DOMAIN inotify :
       /\ inotify[i].wd \in DOMAIN wd_entry_map_
       /\ \E c \in name_entry_map_[wd_entry_map_[inotify[i].wd]].entries :
            cookies[c] = inotify[i].file /\ c \notin cookie_bookmark_]
  /\ UNCHANGED <<lifeVars, cmds_, cookieVars, tableVars, fileUser, monitorUsed>>

\* The kernel: a file of a watched directory changes.
FileChanges(f) ==
  /\ Len(inotify) < MaxFileEvents
  /\ \E wd \in DOMAIN watches :
       watches[wd] = FileDir[f] /\ inotify' = Append(inotify, [wd |-> wd, file |-> f])
  /\ UNCHANGED <<lifeVars, worker, cmds_, cookieVars, tableVars, fileUser, monitorGhost,
                 monitorUsed>>

\* The kernel: a directory is removed, and its watch with it.  The event has
\* no name, and the worker passes over it.
DirectoryGone(wd) ==
  /\ wd \in DOMAIN watches /\ monitorUsed.gone < MaxDirsGone
  /\ watches' = Without(watches, wd)
  /\ monitorUsed' = [monitorUsed EXCEPT !.gone = @ + 1]
  /\ UNCHANGED <<lifeVars, worker, cmds_, cookieVars, name_entry_map_, wd_entry_map_, inotify, fileUser, monitorGhost>>

MonitorNext ==
  \/ Start \/ Stop \/ StopJoined
  \/ \E u \in FileUsers :
       \/ ObserveCheck(u) \/ ObserveFails(u) \/ Enqueue(u)
       \/ \E f \in MonitoredFiles : ObserveAcquire(u, f)
       \/ \E c \in fileUser[u].mine : ForgetCheck(u, c)
  \/ WorkLoop \/ TakeCommands \/ ProcessObserve \/ ProcessForget \/ ProcessInotify
  \/ \E f \in MonitoredFiles : FileChanges(f)
  \/ \E wd \in DOMAIN watches : DirectoryGone(wd)

MonitorSpec == MonitorInit /\ [][MonitorNext]_monitorVars

-----------------------------------------------------------------------------
\* ProcessForget and Stop free the cookies: the worker never uses one that
\* was freed, unless a call of Observe or Forget ran across a Stop.
CookiesAlive == monitorGhost.misuse => monitorGhost.overlapped

\* ProcessObserve, ProcessForget: the two maps have the same entries, every
\* entry has a file, and inotify watches exactly their directories, unless
\* a directory was removed: then its entry is deaf.
WatchesOwned ==
  /\ DOMAIN wd_entry_map_ = {name_entry_map_[d].wd : d \in DOMAIN name_entry_map_}
  /\ \A d \in DOMAIN name_entry_map_ : /\ name_entry_map_[d].entries # {}
                                       /\ wd_entry_map_[name_entry_map_[d].wd] = d
  /\ DOMAIN watches \subseteq DOMAIN wd_entry_map_
  /\ monitorUsed.gone = 0 => DOMAIN watches = DOMAIN wd_entry_map_

\* The cookies whose Observe has not been applied.
Coming ==
  {fileUser[u].cookie : u \in {v \in FileUsers : fileUser[v].pc = "queue observe"}} \cup
  {q.cookie : q \in {r \in {cmds_[i] : i \in DOMAIN cmds_} \cup
                       {worker.cmds[i] : i \in DOMAIN worker.cmds} : r.type = "Observe"}}

\* Commands are applied in their order: the files in the entries are those
\* that were observed and whose Forget is not through.
EntriesMeanObserved ==
  ~monitorGhost.overlapped =>
    UNION {name_entry_map_[d].entries : d \in DOMAIN name_entry_map_}
      = cookie_bookmark_ \ (Coming \cup monitorGhost.unwatched)

\* Observe, Forget, Stop: cookies, tables and watches say the same.
MonitorOK == CookiesAlive /\ WatchesOwned /\ EntriesMeanObserved
=============================================================================
