------------------------------ MODULE MCUpgrade -----------------------------
(***************************************************************************)
(* A small instance of Upgrade.  The status rows of a v2 database are of   *)
(* one instant in the three layouts that collide, in every order, or have  *)
(* a row among them that cannot be parsed.                                 *)
(***************************************************************************)
EXTENDS Upgrade

Row(f) == [at |-> IF f = "garbage" THEN 0 ELSE 1, form |-> f]

MCStored ==
    {<<Row(f[1]), Row(f[2]), Row(f[3]), NoRow>> :
        f \in {g \in [1 .. 3 -> {"string", "rfc3339", "normal"}] : IsInjective(g)}
              \cup {<<"rfc3339", "garbage", "string">>}}
=============================================================================
