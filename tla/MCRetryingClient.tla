-------------------------- MODULE MCRetryingClient --------------------------
(* A small instance of RetryingClient, with the import requests and values of *)
(* MCReplayService.                                                         *)
EXTENDS RetryingClient, MCReplayService

\* What the client sends: no manual confirmation, no seal before publication.
ClientOps ==
  {"import", "checkpoint", "sync", "scan", "compare", "trace", "draft", "publish"}

=============================================================================
