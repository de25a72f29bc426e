---------------------------- MODULE ContextCache ----------------------------
(***************************************************************************)
(* The cache of compiled context packets.  A packet quotes the memories a  *)
(* recall found, under a key that names the workspace asked for; it has no *)
(* expiry, and a write invalidates the packets of its scope in a commit    *)
(* after its own.  One tenant, one query, a budget that holds every        *)
(* candidate.  A block is the text it quotes: nothing deletes or changes   *)
(* one, so a packet is the set of its memories.                            *)
(***************************************************************************)
EXTENDS Naturals, FiniteSets

CONSTANTS
    Memories,
    Workspaces,
    Whole,        \* the workspace NULL, of a memory or of a request
    ScopeOf,      \* the workspace of each memory
    Simulated,    \* memories of something imagined
    Compilers,    \* callers of compile_context
    NoPacket,
    MaxCompiles   \* bound: calls of compile_context

Places == Workspaces \cup {Whole}

ASSUME ContextAssumption ==
    /\ Whole \notin Workspaces
    /\ ScopeOf \in [Memories -> Places]
    /\ Simulated \subseteq Memories
    /\ MaxCompiles \in Nat

VARIABLES
    active,        \* memories with an active row
    unannounced,   \* stored by a writer that has not invalidated yet
    packets,       \* context_cache_entries, by the workspace of the key
    compiles,      \* the call of each compiler
    compiled,      \* calls made
    unheard,       \* history: stored, and its writer never invalidated
    gone,          \* history: forgotten or erased
    outlived,      \* history: <<place, memory>> where the packet of the place
                   \* stood when the memory it quotes was deleted, and still does
    overtaken      \* history: <<place, memory>> whose invalidation came while a
                   \* compile for the place had recalled without the memory

cacheVars == <<active, unannounced, packets, compiles, compiled, unheard, gone,
               outlived, overtaken>>

Compile == [at: {"idle", "recall", "look_again", "cache"},
            place: Places, simulations: BOOLEAN, found: SUBSET Memories]

NoCompile == [at |-> "idle", place |-> Whole, simulations |-> FALSE, found |-> {}]

ContextTypeOK ==
    /\ active \cup unannounced \cup unheard \cup gone \subseteq Memories
    /\ packets \in [Places -> (SUBSET Memories) \cup {NoPacket}]
    /\ compiles \in [Compilers -> Compile]
    /\ compiled \in 0..MaxCompiles
    /\ outlived \subseteq Places \X Memories
    /\ overtaken \subseteq Places \X Memories

ContextInit ==
    /\ active = {} /\ unannounced = {} /\ unheard = {} /\ gone = {}
    /\ packets = [w \in Places |-> NoPacket]
    /\ compiles = [c \in Compilers |-> NoCompile]
    /\ compiled = 0
    /\ outlived = {} /\ overtaken = {}

\* A workspace sees its own memories and those of none; NULL sees all.
Sees(place, m) == place = Whole \/ ScopeOf[m] \in {place, Whole}

-----------------------------------------------------------------------------
(* Writers: remember(), bulk_ingest() and the worker's builder. *)

Remembered(m) ==
    /\ m \notin active \cup gone
    /\ active' = active \cup {m}
    /\ unannounced' = unannounced \cup {m}
    /\ UNCHANGED <<packets, compiles, compiled, unheard, gone, outlived, overtaken>>

\* Mutant: only the workspace of the memory, not the requests for all.
StaleExactly(m, place) == place = ScopeOf[m]

\* Which packets a write makes stale.
Stale(m, place) == ScopeOf[m] = Whole \/ place \in {ScopeOf[m], Whole}

\* invalidate_scope deletes the packets there are.  It cannot reach a compile
\* that is about to write one from what it recalled before.
InvalidateScope(m) ==
    /\ m \in unannounced
    /\ unannounced' = unannounced \ {m}
    /\ packets' = [w \in Places |-> IF Stale(m, w) THEN NoPacket ELSE packets[w]]
    /\ outlived' = {quote \in outlived : ~Stale(m, quote[1])}
    /\ overtaken' = overtaken \cup
           {<<compiles[c].place, m>> : c \in
               {c \in Compilers : /\ compiles[c].at \in {"look_again", "cache"}
                                  /\ m \notin compiles[c].found}}
    /\ UNCHANGED <<active, compiles, compiled, unheard, gone>>

\* The process dies between the two commits; or the writer is one that never
\* invalidates, as consolidation and the versions of MemoryStore.supersede.
WriterDies(m) ==
    /\ m \in unannounced
    /\ unannounced' = unannounced \ {m}
    /\ unheard' = unheard \cup {m}
    /\ UNCHANGED <<active, packets, compiles, compiled, gone, outlived, overtaken>>

Quoting(m) == {w \in Places : packets[w] # NoPacket /\ m \in packets[w]}

\* forget_derived or erase_history, which delete the row, and the text wherever
\* they look for it, and invalidate nothing.
Delete(m) ==
    /\ m \in active
    /\ active' = active \ {m}
    /\ gone' = gone \cup {m}
    /\ outlived' = outlived \cup (Quoting(m) \X {m})
    /\ UNCHANGED <<unannounced, packets, compiles, compiled, unheard, overtaken>>

-----------------------------------------------------------------------------
(* compile_context.  The key says nothing of simulations.                   *)

Advance(c, call) == compiles' = [compiles EXCEPT ![c] = call]

\* A packet under the key is the answer.
Serve(place) ==
    /\ packets[place] # NoPacket
    /\ compiled < MaxCompiles
    /\ compiled' = compiled + 1
    /\ UNCHANGED <<active, unannounced, packets, compiles, unheard, gone, outlived,
                   overtaken>>

Ask(c, place, simulations) ==
    /\ compiles[c].at = "idle"
    /\ packets[place] = NoPacket
    /\ compiled < MaxCompiles
    /\ compiled' = compiled + 1
    /\ Advance(c, [NoCompile EXCEPT !.at = "recall", !.place = place,
                                    !.simulations = simulations])
    /\ UNCHANGED <<active, unannounced, packets, unheard, gone, outlived, overtaken>>

Recall(c) ==
    LET call == compiles[c] IN
    /\ call.at = "recall"
    /\ Advance(c, [call EXCEPT
            !.at = "look_again",
            !.found = {m \in active : /\ Sees(call.place, m)
                                      /\ m \in Simulated => call.simulations}])
    /\ UNCHANGED <<active, unannounced, packets, compiled, unheard, gone, outlived,
                   overtaken>>

\* The compiler asks the cache again before it works.
LookAgain(c) ==
    /\ compiles[c].at = "look_again"
    /\ Advance(c, IF packets[compiles[c].place] # NoPacket THEN NoCompile
                  ELSE [compiles[c] EXCEPT !.at = "cache"])
    /\ UNCHANGED <<active, unannounced, packets, compiled, unheard, gone, outlived,
                   overtaken>>

\* The blocks are put, each in a commit of its own, then the packet, over
\* whatever the key holds by now.
CachePacket(c) ==
    /\ compiles[c].at = "cache"
    /\ packets' = [packets EXCEPT ![compiles[c].place] = compiles[c].found]
    /\ outlived' = {quote \in outlived : quote[1] # compiles[c].place}
    /\ Advance(c, NoCompile)
    /\ UNCHANGED <<active, unannounced, compiled, unheard, gone, overtaken>>

ContextNext ==
    \/ \E m \in Memories :
          Remembered(m) \/ InvalidateScope(m) \/ WriterDies(m) \/ Delete(m)
    \/ \E place \in Places : Serve(place)
    \/ \E c \in Compilers :
          \/ \E place \in Places, simulations \in BOOLEAN : Ask(c, place, simulations)
          \/ Recall(c)
          \/ LookAgain(c)
          \/ CachePacket(c)

ContextSpec == ContextInit /\ [][ContextNext]_cacheVars

-----------------------------------------------------------------------------
\* A packet leaves out nothing its workspace sees whose writer has returned,
\* but what overtook the compile that made it: invalidation reaches every key
\* a write concerns, whoever compiles or deletes meanwhile.  (What is imagined
\* may be left out.)
PacketsAreCurrent ==
    \A w \in Places : packets[w] # NoPacket =>
        \A m \in (active \ Simulated) \ (unannounced \cup unheard) :
            Sees(w, m) => m \in packets[w] \/ <<w, m>> \in overtaken

\* A packet that stood when a memory was forgotten or erased answers no request
\* with it afterwards.  The code breaks this: a deletion invalidates no packet, and
\* a packet does not expire.
ForgottenIsNotServed ==
    [][\A w \in Places : Serve(w) =>
         \A m \in packets[w] \ (unannounced \cup unheard) :
             <<w, m>> \notin outlived]_cacheVars

\* The cache serves nothing imagined to who does not ask for it.  The code
\* breaks this: one packet answers both requests.
SimulationsOnRequest ==
    \A w \in Places : packets[w] # NoPacket => packets[w] \cap Simulated = {}
=============================================================================
