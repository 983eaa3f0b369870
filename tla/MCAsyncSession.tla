--------------------------- MODULE MCAsyncSession ---------------------------
(* Model values for AsyncSession: the gateway's defaults scaled to a tick  *)
(* of half the precision, so that only every second tick is effective.     *)
EXTENDS AsyncSession

MCTickMs == 500
MCTimeoutMs == 3000
MCPrecisionMs == 1000
MCPredictionMs == 2000
MCMaxFrames == 2

\* Strand jobs and writes queued at once; past this bound nothing new can
\* happen but more of the same.
MaxPosted == 2

StateBound ==
  /\ Len(closeQ) <= MaxPosted
  /\ Len(writes) <= MaxPosted
  /\ retryAborted <= MaxPosted
  /\ reads <= MaxPosted
=============================================================================
