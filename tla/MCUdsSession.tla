---------------------------- MODULE MCUdsSession ----------------------------
(* UdsSession with the handlers in every order, or the one of              *)
(* link_control.c last.                                                    *)
EXTENDS UdsSession

AnyOrder ==
  {o \in [1 .. 3 -> {"session", "link", "custom"}] :
     {o[i] : i \in 1 .. 3} = {"session", "link", "custom"}}

LinkLast == {o \in AnyOrder : o[3] = "link"}
=============================================================================
