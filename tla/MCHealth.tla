------------------------------ MODULE MCHealth ------------------------------
(* One unit of each kind a restart can fail for, and a timer. *)
EXTENDS Health

MCUnits == {"web", "pull", "job"}
MCKind  == [u \in MCUnits |->
              CASE u = "web" -> "daemon" [] u = "pull" -> "image"
                [] u = "job" -> "job" [] OTHER -> "passive"]
=============================================================================
