--------------------------- MODULE PluginManager ---------------------------
(***************************************************************************)
(* services/plugin-manager.c: the table of plugins, under its lock, and    *)
(* the loading of their libraries, without it.                             *)
(*                                                                         *)
(* runtime_manager_load_all_plugins is still to be written, so nobody in   *)
(* the program loads a plugin yet.  The callers here do what               *)
(* plugin-manager.h asks: each loads a plugin object of its own, registers *)
(* it if that went well, and unloads it again when the table refused it or *)
(* when it has no use for it any more.  The dynamic linker is external: it *)
(* counts the users of a library.                                          *)
(***************************************************************************)
EXTENDS Naturals, Sequences, FiniteSets, SequencesExt

CONSTANTS
    Plugin,      \* plugin_t objects
    NameOf,      \* their names, thus their libraries
    MaxPlugins,  \* PLUGIN_MANAGER_MAX_PLUGINS
    NoPlugin     \* what is returned for a name that is not in the table

ASSUME PluginAssumption ==
    /\ IsFiniteSet(Plugin) /\ NoPlugin \notin Plugin
    /\ MaxPlugins \in Nat

VARIABLES
    plugins,     \* manager->plugins, the first plugin_count of them
    loading,     \* where the caller of a plugin object is
    mapped       \* how often each library is open

pluginVars == <<plugins, loading, mapped>>

Library == {NameOf[p] : p \in Plugin}

PluginTypeOK ==
    /\ plugins \in Seq(Plugin) /\ Len(plugins) <= MaxPlugins
    /\ loading \in [Plugin -> {"new", "checked", "opened", "loaded", "registered",
                               "refused", "unloaded", "failed"}]
    /\ mapped \in [Library -> Nat]

PluginInit ==
    /\ plugins = <<>>
    /\ loading = [p \in Plugin |-> "new"]
    /\ mapped = [n \in Library |-> 0]

\* plugin_manager_find, and plugin_manager_get
Find(name) ==
    LET found == SelectInSeq(plugins, LAMBDA p : NameOf[p] = name)
    IN  IF found = 0 THEN NoPlugin ELSE plugins[found]

Proceed(p, from, to) == loading[p] = from /\ loading' = [loading EXCEPT ![p] = to]

\* dlclose
CloseLibrary(p) == mapped' = [mapped EXCEPT ![NameOf[p]] = @ - 1]

\* plugin_manager_load looks for the name under the lock, and lets it go.
LoadCheck(p) ==
    /\ Proceed(p, "new", IF Find(NameOf[p]) = NoPlugin THEN "checked" ELSE "failed")
    /\ UNCHANGED <<plugins, mapped>>

OpenLibrary(p) ==
    \/ /\ Proceed(p, "checked", "opened")
       /\ mapped' = [mapped EXCEPT ![NameOf[p]] = @ + 1]
       /\ UNCHANGED plugins
    \/ /\ Proceed(p, "checked", "failed")
       /\ UNCHANGED <<plugins, mapped>>

\* Both symbols are there and plugin_init gives the operations, or the library
\* is closed again.
ResolveSymbols(p) ==
    \/ /\ Proceed(p, "opened", "loaded")
       /\ UNCHANGED <<plugins, mapped>>
    \/ /\ Proceed(p, "opened", "failed")
       /\ CloseLibrary(p)
       /\ UNCHANGED plugins

\* Slip: load has looked for the name already.
RegisterUnchecked(p) ==
    IF Len(plugins) < MaxPlugins
    THEN /\ Proceed(p, "loaded", "registered")
         /\ plugins' = Append(plugins, p)
         /\ UNCHANGED mapped
    ELSE Proceed(p, "loaded", "refused") /\ UNCHANGED <<plugins, mapped>>

\* plugin_manager_register
Register(p) ==
    IF Len(plugins) < MaxPlugins /\ Find(NameOf[p]) = NoPlugin
    THEN /\ Proceed(p, "loaded", "registered")
         /\ plugins' = Append(plugins, p)
         /\ UNCHANGED mapped
    ELSE Proceed(p, "loaded", "refused") /\ UNCHANGED <<plugins, mapped>>

\* plugin_manager_unload.  It does not take the plugin out of the table, and
\* does not ask if it is there.
Unload(p) ==
    /\ \E from \in {"registered", "refused"} : Proceed(p, from, "unloaded")
    /\ CloseLibrary(p)
    /\ UNCHANGED plugins

\* A plugin that is found, with its library still there to call.
Callable(name) == Find(name) # NoPlugin /\ mapped[NameOf[Find(name)]] > 0

PluginStep(p) ==
    LoadCheck(p) \/ OpenLibrary(p) \/ ResolveSymbols(p) \/ Register(p) \/ Unload(p)

----------------------------------------------------------------------------
\* The check for duplicates in load is over when its answer is used, and two
\* callers may load one library.  Yet a name is in the table once, what is
\* there stays mapped until it is unloaded itself, whoever gives up the same
\* library, and a library is open once for each caller that has it.  (After an
\* unload plugin-manager.h has it out of the table, and the code does not.)
LoadedOnce ==
    /\ IsInjective([k \in DOMAIN plugins |-> NameOf[plugins[k]]])
    /\ \A p \in ToSet(plugins) : loading[p] # "unloaded" => mapped[NameOf[p]] > 0
    /\ \A n \in Library :
          mapped[n] = Cardinality({p \in Plugin : NameOf[p] = n /\
                         loading[p] \in {"opened", "loaded", "registered", "refused"}})
=============================================================================
