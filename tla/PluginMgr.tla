------------------------------ MODULE PluginMgr ------------------------------
(***************************************************************************)
(* The plug-in manager (orc/plugin/plugin_mgr.cc, plugin.cc): Init walks a *)
(* directory, or the paths a plugin.yaml lists, in whatever order readdir  *)
(* returns, loads every shared library on the way, and indexes the loaded  *)
(* plug-ins by name, module and tag.  The recursion of LoadPlugins through *)
(* LoadDirectory is the stack "opened" of the directories being read.      *)
(***************************************************************************)
EXTENDS Naturals, Sequences, FiniteSets, SequencesExt

CONSTANTS Paths,          \* the files below the plug-in path
          Kind,           \* path -> "dir", "so", "other" or "bad" (stat fails, a device)
          Children,       \* directory -> the set of its entries
          Info,           \* library -> [name, module, tags], its PluginInfo
          PluginRoot,     \* the configured path
          PluginConfs     \* what plugin.yaml may list: sequences of paths

VARIABLES pluginPc,
          listed, taken,  \* the list Init works through, and how far it came
          opened,         \* directories being read: what readdir has still to return
          plugins_, index

pluginVars == <<pluginPc, listed, taken, opened, plugins_, index>>

Libraries == {p \in Paths : Kind[p] = "so"}
PluginNames == {Info[p].name : p \in Libraries}
ModuleNames == {Info[p].module : p \in Libraries}
Tags == UNION {Range(Info[p].tags) : p \in Libraries}

(* name_idx_, module_idx_, tag_idx_ and module_tag_idx_: positions of      *)
(* plugins_ for the pointers to its elements; no entry is an empty one.    *)
EmptyIndex == [name      |-> [n \in PluginNames |-> <<>>],
               module    |-> [m \in ModuleNames |-> <<>>],
               tag       |-> [t \in Tags |-> <<>>],
               moduleTag |-> [mt \in ModuleNames \X Tags |-> <<>>]]

PluginInit ==
  /\ pluginPc = "new" /\ listed = <<>> /\ taken = 0 /\ opened = <<>> /\ plugins_ = <<>>
  /\ index = EmptyIndex

\* A path that realpath refuses and a plugin.yaml that is no list both fail.
InitPath ==
  /\ pluginPc = "new"
  /\ \/ pluginPc' = "loading" /\ listed' \in {<<PluginRoot>>} \cup PluginConfs
     \/ pluginPc' = "failed" /\ UNCHANGED listed
  /\ UNCHANGED <<taken, opened, plugins_, index>>

\* The path LoadPlugins is called with next: an entry of the innermost
\* directory, or the next path of the list, and what is left then.
NextPath(path) == IF opened = <<>> THEN taken < Len(listed) /\ path = listed[taken + 1]
                                   ELSE path \in Last(opened)
TakenThen == IF opened = <<>> THEN taken + 1 ELSE taken
OpenedLeft(path) ==
  IF opened = <<>> THEN <<>> ELSE ReplaceAt(opened, Len(opened), Last(opened) \ {path})

\* Slip: LoadDirectory returns what its first subdirectory returned.
InnerOnly(path) == <<Children[path]>>

WithInner(path) == Append(OpenedLeft(path), Children[path])

\* A file that is no library is passed over.  Whatever fails (stat, opendir,
\* dlopen, the entry function and its result) hands false up to Init.
LoadPlugins(path) ==
  /\ pluginPc = "loading" /\ NextPath(path)
  /\ \/ /\ Kind[path] = "dir" /\ opened' = WithInner(path) /\ taken' = TakenThen
        /\ UNCHANGED <<pluginPc, plugins_>>
     \/ /\ Kind[path] = "so" /\ opened' = OpenedLeft(path) /\ taken' = TakenThen
        /\ plugins_' = Append(plugins_, path) /\ UNCHANGED pluginPc
     \/ /\ Kind[path] = "other" /\ opened' = OpenedLeft(path) /\ taken' = TakenThen
        /\ UNCHANGED <<pluginPc, plugins_>>
     \/ /\ Kind[path] # "other" /\ pluginPc' = "failed" /\ opened' = <<>>
        /\ UNCHANGED <<taken, plugins_>>
  /\ UNCHANGED <<listed, index>>

\* readdir has no further entry.
LeaveDirectory ==
  /\ pluginPc = "loading" /\ opened # <<>> /\ Last(opened) = {}
  /\ opened' = Front(opened) /\ UNCHANGED <<pluginPc, listed, taken, plugins_, index>>

Tagged(idx, i, pi, tag) ==
  [idx EXCEPT !.tag[tag] = Append(@, i), !.moduleTag[pi.module, tag] = Append(@, i)]

Indexed(idx, i) ==
  LET pi == Info[plugins_[i]]
      named == [idx EXCEPT !.name[pi.name] = Append(@, i), !.module[pi.module] = Append(@, i)]
  IN  FoldLeft(LAMBDA at, tag : Tagged(at, i, pi, tag), named, pi.tags)

BuildIndex ==
  /\ pluginPc = "loading" /\ opened = <<>> /\ taken = Len(listed)
  /\ index' = FoldLeft(Indexed, index, [i \in DOMAIN plugins_ |-> i])
  /\ pluginPc' = "ready" /\ UNCHANGED <<listed, taken, opened, plugins_>>

PluginNext ==
  InitPath \/ (\E path \in Paths : LoadPlugins(path)) \/ LeaveDirectory \/ BuildIndex

PluginSpec == PluginInit /\ [][PluginNext]_pluginVars

-----------------------------------------------------------------------------
FindPluginByName(name) == index.name[name]
FindPluginByModule(module) == index.module[module]
FindPluginByTag(tag) == index.tag[tag]
FindPluginByModuleName(module, name) ==
  SelectSeq(index.name[name], LAMBDA i : Info[plugins_[i]].module = module)
FindPluginByModuleTag(module, tag) == index.moduleTag[module, tag]
FindPluginByModuleTagName(module, tag, name) ==
  SelectSeq(index.moduleTag[module, tag], LAMBDA i : Info[plugins_[i]].name = name)

-----------------------------------------------------------------------------
(* Properties.                                                             *)

RECURSIVE Below(_)
Below(path) == IF Kind[path] = "dir" THEN UNION {Below(p) : p \in Children[path]} ELSE {path}

\* In whatever order readdir returned the entries, a manager that is ready
\* loaded the libraries below the path, each once, or those below each listed
\* path once per listing, and no index exists before all of them are loaded.
EveryLibraryLoaded ==
  /\ pluginPc = "ready" =>
       \A lib \in Libraries :
         Cardinality({i \in DOMAIN plugins_ : plugins_[i] = lib})
           = Cardinality({i \in DOMAIN listed : lib \in Below(listed[i])})
  /\ pluginPc # "ready" => index = EmptyIndex

Matching(test(_)) == {i \in DOMAIN plugins_ : test(Info[plugins_[i]])}

\* What the six lookups return, from four tables of different keys, is what a
\* scan of the loaded plug-ins finds.
FindsAgree ==
  pluginPc = "ready" =>
    \A n \in PluginNames, m \in ModuleNames, t \in Tags :
      /\ Range(FindPluginByName(n)) = Matching(LAMBDA pi : pi.name = n)
      /\ Range(FindPluginByModule(m)) = Matching(LAMBDA pi : pi.module = m)
      /\ Range(FindPluginByTag(t)) = Matching(LAMBDA pi : Contains(pi.tags, t))
      /\ Range(FindPluginByModuleName(m, n))
           = Matching(LAMBDA pi : pi.module = m /\ pi.name = n)
      /\ Range(FindPluginByModuleTag(m, t))
           = Matching(LAMBDA pi : pi.module = m /\ Contains(pi.tags, t))
      /\ Range(FindPluginByModuleTagName(m, t, n))
           = Matching(LAMBDA pi : pi.module = m /\ Contains(pi.tags, t) /\ pi.name = n)

\* Init and the lookups: every library is loaded and can be found.
PluginsOK == EveryLibraryLoaded /\ FindsAgree
=============================================================================
