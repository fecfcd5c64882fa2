------------------------------ MODULE MCShared ------------------------------
(***************************************************************************)
(* What threads share: the queue, the pools of indices, and the flag the   *)
(* render thread of a display sleeps on.  They share no state; each        *)
(* behaviour is one of one of them, the others staying as they begin.      *)
(***************************************************************************)
EXTENDS GuacFifo, PooledIndices, DisplayRender, TLC

VARIABLE part

vars3 == <<part, vars, indexVars, renderVars>>

Start(parts) == Init /\ IndicesInit /\ RenderInit /\ part \in parts

FifoStep == part = "fifo" /\ Next /\ UNCHANGED <<part, indexVars, renderVars>>
IndicesStep == part = "indices" /\ IndicesNext /\ UNCHANGED <<part, vars, renderVars>>
RenderStep == part = "render" /\ RenderNext /\ UNCHANGED <<part, vars, indexVars>>

\* Every order of calls, for the safety properties.
Symmetry == Permutations(Threads) \cup Permutations(Item) \cup Permutations(Handles)

MCSpec ==
    /\ Start({"fifo", "indices"})
    /\ [][FifoStep \/ IndicesStep]_vars3

\* The two users of guac_flag that sleep on it: the render thread runs, time
\* passes while it does, and a join returns.
LiveSpec ==
    /\ Start({"fifo", "render"})
    /\ [][FifoStep \/ RenderStep]_vars3
    /\ Fairness
    /\ WF_renderVars(part = "render" /\ LoopStep)
    /\ WF_renderVars(TimeGoesOn)
    /\ WF_renderVars(DestroyJoined)

=============================================================================
