---------------------------- MODULE MCUsbDevice ----------------------------
(***************************************************************************)
(* Small instances of UsbDevice.  Two weights compete for one slot, and    *)
(* two Macros are read back under the same reply keys, so that a hit, a    *)
(* replacement and a reply of the wrong Macro are all possible.            *)
(***************************************************************************)
EXTENDS UsbDevice

CONSTANTS s1, wA, wB, m1, m2, k1, k2, c1, c2

Weight(image) == [phase |-> "Configuration", deferred |-> TRUE,
                  slot |-> s1, image |-> image]
RawWeight(image) == [Weight(image) EXCEPT !.deferred = FALSE]
Flits(p) == [phase |-> p, deferred |-> FALSE, slot |-> None, image |-> None]
Read(macro, targets) == [macro |-> macro, targets |-> targets]

Prepared(operations, batches) ==
    [residency |-> TRUE, capture |-> FALSE,
     operations |-> operations, batches |-> batches]
Captured(operations, batches) ==
    [residency |-> FALSE, capture |-> TRUE,
     operations |-> operations, batches |-> batches]

MCPLLWord == [p \in Phases |-> IF p = "Work" THEN "fast" ELSE "slow"]
MCPLLWords == {"fast", "slow"}

\* One weight, both Macros read back, one with two targets.
TwoMacros == Prepared(<<Weight(wA), Flits("Work")>>,
                      <<Read(m1, <<k1, k2>>), Read(m2, <<k1>>)>>)
OneMacro(image) == Prepared(<<Weight(image), Flits("Work")>>, <<Read(m1, <<k1>>)>>)
\* Rewrites a slot within one transaction.
Rewrites == Prepared(<<Weight(wB), Weight(wA), Flits("Work")>>, <<Read(m1, <<k1>>)>>)
Raw == Captured(<<RawWeight(wB), Flits("Work")>>, <<Read(m1, <<k1>>)>>)

ReadbackPrograms == {TwoMacros}
WeightPrograms == {OneMacro(wA), OneMacro(wB), Rewrites, Raw}
MalformedPrograms ==
    {OneMacro(wA),
     Prepared(<<Flits("Work"), Weight(wA)>>, <<>>),
     Prepared(<<Flits("Readback")>>, <<>>),
     Captured(<<Weight(wA)>>, <<>>),
     Prepared(<<Weight(wB)>>, <<Read(m1, <<k1, k1>>)>>),
     Prepared(<<Weight(wB)>>, <<Read(m1, <<>>)>>)}
=============================================================================
