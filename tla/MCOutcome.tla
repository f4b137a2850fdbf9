----------------------------- MODULE MCOutcome ------------------------------
(* Small instances of Outcome for TLC. *)
EXTENDS Outcome

\* A guest writes nothing, a category in the middle of its output, what msb
\* itself would write, two categories, or more than the cap.
Says ==
  {<<>>, <<"text", "sandbox not found">>, <<"error", "volume exists">>,
   <<"volume exists", "sandbox exists">>, <<"text", "text", "snapshot exists">>}

\* Secrets that occur in no category's text, though in the rest of what msb says.
Secrets == {{}, {"error", "text"}}
=============================================================================
