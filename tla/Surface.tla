------------------------------ MODULE Surface -------------------------------
(***************************************************************************)
(* What a prefix declares and how guest code reaches it: the handle table  *)
(* of the host-module function leaves (bridge.rs), the modules built for   *)
(* the imports and their resolution (modules.rs), the names that get       *)
(* placeholders and stubs (bridge.rs, runloop.rs) and the checks on what a *)
(* prefix run rebinds (prefix.rs). All of it is computed from the declared *)
(* globals and imports, which are the values of module Frames: a global is *)
(* <<kind, name, enumerable, rest>>, an import <<specifier, kind, rest>>,  *)
(* a node <<tag, rest>>.                                                   *)
(***************************************************************************)
EXTENDS Integers, Sequences, SequencesExt, FiniteSets, TLC

CONSTANTS
    Dispatcher,   \* the reserved dispatcher stub's name (BRIDGE_DISPATCH_GLOBAL)
    BuiltIns      \* specifiers the runtime itself provides

IsHost(binding) == binding[2] = 1

\* Function leaves of a tree, depth first in entry order.
RECURSIVE FunctionLeaves(_, _)
FunctionLeaves(entries, path) ==
    FlattenSeq([i \in DOMAIN entries |->
        LET here == Append(path, entries[i][1])
            node == entries[i][2]
        IN CASE node[1] = 0 -> <<here>>
             [] node[1] = 1 -> <<>>
             [] node[1] = 2 -> FunctionLeaves(node[2], here)])

\* The dispatcher's table: <<specifier, path>> by handle id (from 0), over
\* the bindings in wire order.
collect_import_handles(imports) ==
    FlattenSeq([i \in DOMAIN imports |->
        IF IsHost(imports[i])
        THEN LET leaves == FunctionLeaves(imports[i][3], <<>>) IN
             [j \in DOMAIN leaves |-> <<imports[i][1], leaves[j]>>]
        ELSE <<>>])

RECURSIVE count_function_leaves(_)
count_function_leaves(entries) ==
    IF entries = <<>> THEN 0
    ELSE LET node == Head(entries)[2] IN
         (CASE node[1] = 0 -> 1 [] node[1] = 1 -> 0 [] node[1] = 2 -> count_function_leaves(node[2]))
         + count_function_leaves(Tail(entries))

\* The first handle id of a specifier: the leaves of the host bindings before
\* its first binding.
RECURSIVE host_module_base_id(_, _)
host_module_base_id(imports, specifier) ==
    IF imports = <<>> \/ Head(imports)[1] = specifier THEN 0
    ELSE (IF IsHost(Head(imports)) THEN count_function_leaves(Head(imports)[3]) ELSE 0)
         + host_module_base_id(Tail(imports), specifier)

\* The callables of a built tree as a function from paths to handle ids: each
\* function leaf takes the next id, threaded through the siblings.
RECURSIVE build_host_value(_, _, _)
build_host_value(entries, path, next) ==
    IF entries = <<>> THEN [ids |-> <<>>, next |-> next]
    ELSE LET here == Append(path, Head(entries)[1])
             node == Head(entries)[2]
             mine == CASE node[1] = 0 -> [ids |-> here :> next, next |-> next + 1]
                       [] node[1] = 1 -> [ids |-> <<>>, next |-> next]
                       [] node[1] = 2 -> build_host_value(node[2], here, next)
             rest == build_host_value(Tail(entries), path, mine.next)
         IN [ids |-> mine.ids @@ rest.ids, next |-> rest.next]

build_host_module(imports, specifier, exports) ==
    build_host_value(exports, <<>>, host_module_base_id(imports, specifier)).ids

\* The first entry under a name, 0 when there is none.
FirstNamed(entries, name) ==
    LET at == {i \in DOMAIN entries : entries[i][1] = name} IN
    IF at = {} THEN 0 ELSE Min(at)

lookup_binding(imports, specifier) == FirstNamed(imports, specifier)

\* One resolution: a cached module is reused; a declared binding comes before
\* a built-in of the same name; anything else is ModuleNotFound.
module_resolver_callback(imports, cache, specifier) ==
    LET at == lookup_binding(imports, specifier) IN
    IF specifier \in DOMAIN cache THEN [ok |-> TRUE, cache |-> cache]
    ELSE IF at # 0
    THEN [ok |-> TRUE,
          cache |-> (specifier :> IF IsHost(imports[at])
                                  THEN build_host_module(imports, specifier, imports[at][3])
                                  ELSE <<>>) @@ cache]
    ELSE [ok |-> specifier \in BuiltIns, cache |-> (specifier :> <<>>) @@ cache]

\* instantiate_module: the graph's imports in the order V8 asks for them.
RECURSIVE Instantiate(_, _, _)
Instantiate(imports, cache, order) ==
    IF order = <<>> THEN [ok |-> TRUE, cache |-> cache]
    ELSE LET one == module_resolver_callback(imports, cache, Head(order)) IN
         IF one.ok THEN Instantiate(imports, one.cache, Tail(order))
         ELSE [ok |-> FALSE, cache |-> <<>>]

----------------------------------------------------------------------------
(* Names on the global object. *)

\* The stub a definition installs under, if any (bridge_stub_name).
bridge_stub_name(def) ==
    CASE def[1] = 0 -> {def[2]} [] def[1] = 3 -> {def[4][2]} [] OTHER -> {}

StubNames(globals) == UNION {bridge_stub_name(globals[i]) : i \in DOMAIN globals}

\* Placeholders go over every bridge callable the prefix declares, and over
\* the dispatcher when any import is a host module.
PlaceholderNames(globals, imports) ==
    StubNames(globals)
    \cup (IF \E i \in DOMAIN imports : IsHost(imports[i]) THEN {Dispatcher} ELSE {})

\* A run's live stubs: what its frame carries, and the dispatcher when the
\* declared imports have a function leaf.
RunStubNames(globals, imports) ==
    StubNames(globals)
    \cup (IF collect_import_handles(imports) # <<>> THEN {Dispatcher} ELSE {})

\* install_value_globals: strings, data and shim wrappers.
ValueGlobals(globals) ==
    {globals[i][2] : i \in {j \in DOMAIN globals : globals[j][1] # 0}}

----------------------------------------------------------------------------
(* What a prefix run may rebind. *)

validate_global_rebinds(globals, declared) ==
    \A i \in DOMAIN globals : globals[i][1] = 0 /\ globals[i][2] \in StubNames(declared)

\* The node at a path: nothing past a leaf, nothing at the empty path.
RECURSIVE find_host_node(_, _)
find_host_node(entries, path) ==
    LET at == IF path = <<>> THEN 0 ELSE FirstNamed(entries, path[1]) IN
    IF at = 0 THEN <<>>
    ELSE LET node == entries[at][2] IN
         IF Len(path) = 1 THEN <<node>>
         ELSE IF node[1] = 2 THEN find_host_node(node[2], Tail(path)) ELSE <<>>

validate_import_rebinds(rebinds, imports) ==
    \A i \in DOMAIN rebinds :
        LET at == lookup_binding(imports, rebinds[i][1]) IN
        /\ at # 0
        /\ IsHost(imports[at])
        /\ LET found == find_host_node(imports[at][3], rebinds[i][2]) IN
           found # <<>> /\ found[1][1] = 0
=============================================================================
