------------------------------- MODULE MCFiles -------------------------------
(***************************************************************************)
(* What the processes of a machine do through files: the passes over a     *)
(* workflow file and the pool of its graphs; the monitor of changed files; *)
(* the file of counters that servers share, and the tool that reads it.    *)
(* They share no state here: "files_part" says whose behaviour this is,    *)
(* the others rest in their initial states and are not looked at.          *)
(***************************************************************************)
EXTENDS MCWorkflowLanguage, FileMonitor, MonitorStatus, MsReader, TLC

VARIABLE files_part

\* Two files of one directory.
MCFileDir == "fa" :> "d1" @@ "fb" :> "d1"

\* Two threads of one process and one of another; two of them add one counter.
MCMsProcess == 1 :> 1 @@ 2 :> 1 @@ 3 :> 2
MCMsUses == 1 :> {<<"C", "a">>} @@ 2 :> {<<"C", "a">>, <<"C", "b">>} @@ 3 :> {<<"C", "b">>, <<"T", "a">>}

\* An unusable command line; one sample of every type with -s and -t; repeated
\* samples with both of them and with neither.
MCOptions ==
  {o \in [usable : BOOLEAN, interval : {0, 1}, type : {"", "json", "text", "else"},
          search : BOOLEAN, slices : BOOLEAN] :
     /\ ~o.usable => o.interval = 0 /\ o.type = "" /\ ~o.search /\ ~o.slices
     /\ o.type # "" => o.slices /\ o.interval = 0 /\ o.search /\ o.usable
     /\ o.usable /\ o.interval = 0 => o.search /\ o.slices
     /\ o.interval = 1 => (o.search <=> o.slices)}
MCThresholds == <<2, 4>>

-----------------------------------------------------------------------------
filesState == <<languageState, monitorVars, msVars, readerVars, files_part>>

FilesInit ==
  /\ MonitorInit /\ MsInit /\ ReaderInit
  /\ files_part \in {"language", "monitor", "status", "reader"}
  /\ IF files_part = "language" THEN LanguageInit ELSE NoPass
  /\ files_part # "reader" => ~options.usable

FilesNext ==
  /\ UNCHANGED files_part
  /\ \/ files_part = "language" /\ LanguageNext
        /\ UNCHANGED <<monitorVars, msVars, readerVars>>
     \/ files_part = "monitor" /\ MonitorNext
        /\ UNCHANGED <<languageState, msVars, readerVars>>
     \/ files_part = "status" /\ MsNext
        /\ UNCHANGED <<languageState, monitorVars, readerVars>>
     \/ files_part = "reader" /\ ReaderNext
        /\ UNCHANGED <<languageState, monitorVars, msVars>>

FilesSpec == FilesInit /\ [][FilesNext]_filesState

=============================================================================
