--------------------------------- MODULE Env ---------------------------------
(***************************************************************************)
(* The import resolver of execute (env.rs): which functions of "env" a     *)
(* contract may import, and which memory.  A contract cannot define its    *)
(* own memory (parser.rs:43), so the one imported is all it has.           *)
(***************************************************************************)
EXTENDS Naturals

CONSTANTS
    MaxMemory,    \* with_limit: pages a memory may be declared to reach
    NoMaximum,    \* a memory declared without a maximum
    Memories      \* memories that modules declare

Descriptor == [initial : Nat, maximum : Nat \cup {NoMaximum}]

\* wasmi's validation refuses an initial size past the maximum.
ASSUME EnvAssumption ==
    /\ MaxMemory \in Nat
    /\ NoMaximum \notin Nat
    /\ Memories \subseteq {d \in Descriptor :
                             d.maximum \in Nat => d.initial <= d.maximum}

-----------------------------------------------------------------------------
(* Functions.                                                              *)

\* The flags of WasmCosts::default.
have_create2 == FALSE
have_gasleft == FALSE

\* The names resolve_func links.
Resolved ==
    {"storage_read", "storage_write", "ret", "gas", "input_length",
     "fetch_input", "panic", "debug", "ccall", "dcall", "scall", "value",
     "create", "suicide", "block_hash", "blocknumber", "coinbase",
     "difficulty", "gaslimit", "timestamp", "address", "sender", "origin",
     "elog"}
    \cup (IF have_create2 THEN {"create2"} ELSE {})
    \cup (IF have_gasleft THEN {"gasleft"} ELSE {})

\* The names whose index has an arm in invoke_index.
Dispatched ==
    {"storage_read", "storage_write", "ret", "gas", "input_length",
     "fetch_input", "panic", "debug", "ccall", "value", "create", "suicide",
     "block_hash", "blocknumber", "coinbase", "difficulty", "gaslimit",
     "timestamp", "address", "sender", "origin", "elog", "gasleft"}

-----------------------------------------------------------------------------
(* Memory.                                                                 *)

\* Mutant: a memory without a maximum counts as one that does not grow.
EffectiveMax_Initial(d) ==
    IF d.maximum = NoMaximum THEN d.initial ELSE d.maximum

EffectiveMax(d) == IF d.maximum = NoMaximum THEN MaxMemory + 1 ELSE d.maximum

ResolvesMemory(d) == d.initial <= MaxMemory /\ EffectiveMax(d) <= MaxMemory

MemoryState == [initial : Nat, size : Nat, maximum : Nat \cup {NoMaximum}]

\* MemoryInstance::alloc; size is the pages it has.
Memory(d) == [initial |-> d.initial, size |-> d.initial, maximum |-> d.maximum]

\* memory_ref without an imported memory.
NoMemory == Memory([initial |-> 0, maximum |-> 0])

\* wasmi's grow: past the maximum it has no effect and answers -1.
Grow(memory, n) ==
    IF memory.maximum = NoMaximum \/ memory.size + n <= memory.maximum
    THEN [memory EXCEPT !.size = @ + n] ELSE memory
=============================================================================
