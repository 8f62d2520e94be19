---------------------------- MODULE QueryHandler ----------------------------
(***************************************************************************)
(* The UDP server with the bytes of its packets: what QueryHandler.Handle  *)
(* (internal/server/query_handler.go) finds in them, by Messages.  The     *)
(* operators parses, formErrs and servFails are the values of UDPServer's  *)
(* parameters; the functions keep what is computed for each packet once.   *)
(***************************************************************************)
EXTENDS UDPServer, Messages

AllPayloads == UNION {{f[p] : p \in Packets} : f \in Payloads}

\* Handle: the request, parsed within the bounds.
request   == [m \in AllPayloads |-> ParseRequestBounded(m)]
parses(m) == request[m].ok

\* handleParseError: a FORMERR can be made of what the bytes begin with.
formErr     == [m \in AllPayloads |-> tryBuildErrorFromRaw(m, FormErr).ok]
formErrs(m) == formErr[m]

\* buildErrorResult: a SERVFAIL for the request can be serialised.
servFail     == [m \in {x \in AllPayloads : parses(x)} |->
                    buildErrorResult(request[m].item, ServFail).ok]
servFails(m) == servFail[m]
=============================================================================
