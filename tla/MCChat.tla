------------------------------- MODULE MCChat -------------------------------
(* An instance of Chat for TLC.                                            *)
EXTENDS Chat, TLC

(* Every command of the help, what the answers suggest, and a question.    *)
Typed == {<<"trust", "python3">>, <<"trust", "pid", "1234">>, <<"resume", "1234">>, <<"pause", "1234">>,
          <<"kill", "1234">>, <<"block", "all", "below", "30">>, <<"show", "paused">>,
          <<"show", "action", "log">>, <<"resume", "pid", "1234">>,
          <<"what", "is", "process", "python3", "doing">>}

(* Requests have no names.                                                 *)
Symmetry == Permutations(Handlers)

(* Others that are questions, or look like commands.                       *)
Doubtful == {<<"trust", "pid", "1234">>, <<"is", "python3", "a", "known", "process">>,
             <<"did", "you", "block", "all", "attacks">>, <<"suspend", "pid", "1234">>}

=============================================================================
