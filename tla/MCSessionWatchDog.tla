-------------------------- MODULE MCSessionWatchDog --------------------------
(* SessionWatchDog with a backlog that holds the users' connections and all *)
(* the calls that the dog can give up before it aborts.                     *)
EXTENDS SessionWatchDog

MCLoads == {0, 13, 40, 90}
=============================================================================
