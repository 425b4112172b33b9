---------------------------- MODULE MCBaseHeader ----------------------------
(* Model checking of BaseHeader: lengths on both sides of the points where *)
(* an integer gets another digit or a digit becomes zero.                  *)
EXTENDS BaseHeader

Near(n, d) == (n - d)..(n + d)

MCLengths ==
    0..3 \cup UNION {Near(n, 1) : n \in {128, 256, 128^2, 128^2 + 128, 2 * 128^2, 128^3,
                                      128^3 + 128, 128^3 + 128^2, 3 * 128^3 + 128^2}}
        \cup {127 * 128, 128^4 - 1}
=============================================================================
