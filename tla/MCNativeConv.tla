---- MODULE MCNativeConv ----
(* TLC instance of NativeConv: bytes of two bits, a matmul lane of two, and the
   geometries that tell the padding rules, the routes and the filters apart.
   Totals are linear in each byte, so the extremes of a byte stand for all. *)
EXTENDS NativeConv

L(ic, ih, iw, oc, kh, kw, s, d, same) ==
    [IC |-> ic, IH |-> ih, IW |-> iw, OC |-> oc, KH |-> kh, KW |-> kw,
     sy |-> s, sx |-> s, dy |-> d, dx |-> d, same |-> same, dw |-> FALSE]

MCLayers ==
    {L(1, 1, 4, 1, 1, 2, s, d, same) : s \in {1, 2}, d \in {1, 2}, same \in BOOLEAN}
    \cup {L(1, 2, 2, 1, 2, 2, s, 1, TRUE) : s \in {1, 2}}
    \cup {L(1, 3, 2, 1, 2, 1, 1, 1, FALSE),     \* rows only
          L(2, 1, 2, 1, 1, 2, 1, 1, TRUE),      \* two channels in a window
          L(1, 1, 4, 2, 1, 1, 1, 1, TRUE),      \* two outputs, conv or matmul
          L(2, 2, 2, 1, 1, 1, 1, 1, TRUE),      \* two inputs, conv or matmul
          L(1, 1, 4, 1, 1, 3, 2, 1, TRUE),      \* all the padding on one side
          L(1, 1, 3, 1, 1, 1, 2, 1, TRUE),      \* a stride beyond the kernel
          [L(2, 1, 3, 2, 1, 2, 1, 1, TRUE) EXCEPT !.dw = TRUE]}
MCSamples == [u \in BOOLEAN |-> IF u THEN {0, 2 * Half - 1} ELSE {-Half, Half - 1}]
MCBiases == {3}
====
