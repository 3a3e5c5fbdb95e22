------------------------------ MODULE MCStartup ------------------------------
(* One TCM and one or two PMs; a configuration of all boards and one that names a   *)
(* board which is not connected.                                                    *)
EXTENDS Startup

McBoardsOf == [c \in Configurations |->
  IF c = "physics" THEN Boards ELSE {TCM, "absent"}]
McConfigurations == {"physics", "broken"}
==============================================================================
