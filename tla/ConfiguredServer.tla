-------------------------- MODULE ConfiguredServer --------------------------
(***************************************************************************)
(* A server that is built from a JSON document: the document is checked,   *)
(* the plugins it names are loaded from their libraries, each registers    *)
(* handlers, the routes are bound to handlers, and whatever fails on the   *)
(* way undoes what was done.  A field of a document that is missing or is  *)
(* no string is Missing.                                                   *)
(***************************************************************************)
EXTENDS Integers, Sequences, FiniteSets

CONSTANTS
  Libraries, Names, HandlerNames, Methods, Paths,
  Missing,
  MaxPlugins, MaxRoutes     \* bounds: entries of a document

VARIABLES
  document,
  stage,            \* where createFromFile and the life of the server are
  opened,           \* how often each library is open
  handle, rawPlugin, registered,    \* of the plugin that is being loaded
  plugins,          \* impl_->plugins
  bound,            \* impl_->handlers: the plugin that owns a name, and what it registered
  table             \* the routes of the server: method and path to plugin and handler

loading == <<handle, rawPlugin, registered>>
serverVars == <<document, stage, opened, loading, plugins, bound, table>>

Shapes == {"absent", "other", "right"}

SeqsUpTo(S, n) == UNION {[1..k -> S] : k \in 0..n}

PluginEntries == [name : Names, library : Libraries]
RouteEntries == [method : Methods, path : Paths, plugin : Names, handler : HandlerNames]

\* An entry that lacks one of its fields.
Lacking(entry) == {[entry EXCEPT ![f] = Missing] : f \in DOMAIN entry}

Sections(Entries, n) ==
  [shape : {"absent", "other"}, entries : {<<>>}]
    \cup [shape : {"right"}, entries : SeqsUpTo(Entries, n)]
    \cup [shape : {"right"}, entries : {<<e>> : e \in UNION {Lacking(x) : x \in Entries}}]

Documents ==
  [server : Shapes, static_dirs : Shapes,
   plugins : Sections(PluginEntries, MaxPlugins), routes : Sections(RouteEntries, MaxRoutes)]

Nowhere == [x \in {} |-> 0]

InitWith(doc) ==
  /\ document = doc
  /\ stage = "load" /\ opened = [l \in Libraries |-> 0]
  /\ handle = Missing /\ rawPlugin = FALSE /\ registered = {}
  /\ plugins = <<>> /\ bound = Nowhere /\ table = Nowhere

Init == \E doc \in Documents : InitWith(doc)

(***************************************************************************)
(* loadRuntimeConfig                                                       *)
(***************************************************************************)
Complete(section) ==
  /\ section.shape = "right"
  /\ \A i \in DOMAIN section.entries :
       \A f \in DOMAIN section.entries[i] : section.entries[i][f] # Missing

Acceptable(doc) ==
  /\ doc.server # "other" /\ doc.static_dirs # "other"
  /\ Complete(doc.plugins) /\ Complete(doc.routes)

LoadConfig ==
  /\ stage = "load"
  /\ stage' = IF Acceptable(document) THEN "open" ELSE "refused"
  /\ UNCHANGED <<document, opened, loading, plugins, bound, table>>

(***************************************************************************)
(* build: the plugins                                                      *)
(***************************************************************************)
Entry == document.plugins.entries[Len(plugins) + 1]

Closed(l) == opened' = [opened EXCEPT ![l] = @ - 1]

\* The server is destroyed with whatever it holds by then.
Fails == stage' = "destroy"

OpenLibrary ==
  /\ stage = "open" /\ Len(plugins) < Len(document.plugins.entries)
  /\ \/ /\ handle' = Entry.library /\ stage' = "create"
        /\ opened' = [opened EXCEPT ![Entry.library] = @ + 1]
     \/ Fails /\ UNCHANGED <<handle, opened>>
  /\ UNCHANGED <<document, rawPlugin, registered, plugins, bound, table>>

\* The factory is missing from the library, or makes nothing, or a plugin.
CreatePlugin ==
  /\ stage = "create"
  /\ \/ Fails /\ Closed(handle) /\ handle' = Missing /\ UNCHANGED rawPlugin
     \/ stage' = "register" /\ rawPlugin' = TRUE /\ UNCHANGED <<handle, opened>>
  /\ UNCHANGED <<document, registered, plugins, bound, table>>

\* The plugin registers handlers, each name once, and may refuse after some.
RegisterHandlers ==
  /\ stage = "register"
  /\ stage' \in {"store", "undo"} /\ registered' \in SUBSET HandlerNames
  /\ UNCHANGED <<document, opened, handle, rawPlugin, plugins, bound, table>>

DestroyRaw ==
  /\ stage = "undo" /\ stage' = "close" /\ rawPlugin' = FALSE
  /\ UNCHANGED <<document, opened, handle, registered, plugins, bound, table>>

(* Mutant of CloseRaw: the library stays open.                              *)
ForgetRaw ==
  /\ stage = "close" /\ stage' = "leave" /\ handle' = Missing
  /\ UNCHANGED <<document, opened, rawPlugin, registered, plugins, bound, table>>

CloseRaw ==
  /\ stage = "close" /\ stage' = "leave" /\ Closed(handle) /\ handle' = Missing
  /\ UNCHANGED <<document, rawPlugin, registered, plugins, bound, table>>

\* The registrar leaves its scope, with handlers whose library is closed.
LeaveScope ==
  /\ stage = "leave" /\ Fails /\ registered' = {}
  /\ UNCHANGED <<document, opened, handle, rawPlugin, plugins, bound, table>>

\* Of two plugins with one name the handlers of the first count.
StorePlugin ==
  /\ stage = "store" /\ stage' = "open"
  /\ bound' = IF Entry.name \in DOMAIN bound THEN bound
              ELSE [n \in DOMAIN bound \cup {Entry.name} |->
                      IF n = Entry.name THEN [plugin |-> Len(plugins) + 1, names |-> registered]
                      ELSE bound[n]]
  /\ plugins' = Append(plugins, [library |-> handle, plugin |-> TRUE])
  /\ handle' = Missing /\ rawPlugin' = FALSE /\ registered' = {}
  /\ UNCHANGED <<document, opened, table>>

(***************************************************************************)
(* build: the routes                                                       *)
(***************************************************************************)
Routed == Cardinality(DOMAIN table)
Route == document.routes.entries[Routed + 1]
Key(r) == <<r.method, r.path>>

\* The router refuses a second handler for the same method and path.
BindRoute ==
  /\ stage = "open" /\ Len(plugins) = Len(document.plugins.entries)
  /\ Routed < Len(document.routes.entries)
  /\ IF /\ Route.plugin \in DOMAIN bound
        /\ Route.handler \in bound[Route.plugin].names
        /\ Key(Route) \notin DOMAIN table
     THEN /\ table' = [k \in DOMAIN table \cup {Key(Route)} |->
                         IF k = Key(Route)
                         THEN [plugin |-> bound[Route.plugin].plugin, handler |-> Route.handler]
                         ELSE table[k]]
          /\ UNCHANGED stage
     ELSE Fails /\ UNCHANGED table
  /\ UNCHANGED <<document, opened, loading, plugins, bound>>

Built ==
  /\ stage = "open" /\ Len(plugins) = Len(document.plugins.entries)
  /\ Routed = Len(document.routes.entries)
  /\ stage' = "built"
  /\ UNCHANGED <<document, opened, loading, plugins, bound, table>>

(***************************************************************************)
(* The life of the server                                                  *)
(***************************************************************************)
Start ==
  /\ stage = "built" /\ stage' = "serving"
  /\ UNCHANGED <<document, opened, loading, plugins, bound, table>>

\* The destructor stops and joins the server first.
Destroy ==
  /\ stage \in {"built", "serving"} /\ stage' = "destroy"
  /\ UNCHANGED <<document, opened, loading, plugins, bound, table>>

\* The plugins go in the order of their loading.
IsNext(i) == plugins[i].library # Missing /\ \A j \in 1..i - 1 : plugins[j].library = Missing

DestroyPlugin ==
  /\ stage = "destroy"
  /\ \E i \in DOMAIN plugins :
       /\ IsNext(i) /\ plugins[i].plugin
       /\ plugins' = [plugins EXCEPT ![i].plugin = FALSE]
  /\ UNCHANGED <<document, stage, opened, loading, bound, table>>

(* Mutant of CloseLibrary: it does not wait for the plugin.                 *)
CloseLibraryFirst ==
  /\ stage = "destroy"
  /\ \E i \in DOMAIN plugins :
       /\ IsNext(i)
       /\ Closed(plugins[i].library) /\ plugins' = [plugins EXCEPT ![i].library = Missing]
  /\ UNCHANGED <<document, stage, loading, bound, table>>

CloseLibrary ==
  /\ stage = "destroy"
  /\ \E i \in DOMAIN plugins :
       /\ IsNext(i) /\ ~plugins[i].plugin
       /\ Closed(plugins[i].library) /\ plugins' = [plugins EXCEPT ![i].library = Missing]
  /\ UNCHANGED <<document, stage, loading, bound, table>>

\* The handlers go with the members of the server, after the libraries.
Gone ==
  /\ stage = "destroy" /\ \A i \in DOMAIN plugins : plugins[i].library = Missing
  /\ stage' = "gone" /\ plugins' = <<>> /\ bound' = Nowhere /\ table' = Nowhere
  /\ UNCHANGED <<document, opened, loading>>

(***************************************************************************)
(* HttpRouter::dispatch                                                    *)
(***************************************************************************)
Dispatch(method, path) ==
  IF <<method, path>> \in DOMAIN table THEN table[<<method, path>>]
  ELSE IF \E m \in Methods : <<m, path>> \in DOMAIN table THEN "methodNotAllowed"
  ELSE IF document.static_dirs # "right" THEN "notFound"
  ELSE IF method \in {"GET", "HEAD"} THEN "file" ELSE "methodNotAllowed"

Next ==
  \/ LoadConfig \/ OpenLibrary \/ CreatePlugin \/ RegisterHandlers
  \/ DestroyRaw \/ CloseRaw \/ LeaveScope \/ StorePlugin
  \/ BindRoute \/ Built \/ Start \/ Destroy \/ DestroyPlugin \/ CloseLibrary \/ Gone

Spec == Init /\ [][Next]_serverVars

-----------------------------------------------------------------------------
\* Every opening of a library belongs to the plugin that is being loaded or
\* to one that is stored, and no plugin is there without its opening.
LibrariesAreHeld ==
  /\ \A l \in Libraries :
       opened[l] = Cardinality({i \in DOMAIN plugins : plugins[i].library = l})
                     + (IF handle = l THEN 1 ELSE 0)
  /\ \A i \in DOMAIN plugins : plugins[i].plugin => plugins[i].library # Missing
  /\ rawPlugin => handle # Missing

\* Of a server that was built, every route of the document is answered by the
\* handler it names, of a plugin that is loaded under the name it gives.
RoutesAreServed ==
  stage \in {"built", "serving"} =>
    \A j \in DOMAIN document.routes.entries :
      LET r == document.routes.entries[j]
          to == Dispatch(r.method, r.path)
      IN /\ to.handler = r.handler /\ plugins[to.plugin].plugin
         /\ document.plugins.entries[to.plugin].name = r.plugin

\* However the building of a server ends, its libraries are closed as often as
\* they were opened, each time after the plugin that came from there; and a
\* server that was built serves what its document says.  It says nothing of
\* the handlers: those a plugin registered before it refused, and those that
\* are in `bound` and `table` when the server is destroyed, are still there
\* when their library is closed (LeaveScope, Gone).
PluginsAreHeld ==
  /\ LibrariesAreHeld /\ RoutesAreServed
  /\ stage \in {"refused", "gone"} => \A l \in Libraries : opened[l] = 0
=============================================================================
