--------------------------- MODULE MCAdbSockets ---------------------------
(* What the clients of the model-checking runs of AdbSockets send. *)
EXTENDS AdbSockets

\* The words of a script, and then n bytes.
Script(words, n) == [i \in 1..Len(words) |-> Word(words[i])] \o [i \in 1..n |-> Byte(i)]

\* A stream to the device with three bytes from the client, or a forwarded connection.
StreamScripts == {Script(<<"part", "transport", "open">>, 3), Script(<<"forward">>, 3)}

ClientSymmetry == Permutations(Clients)

\* Requests of every kind, in orders a client may use.
RequestScripts ==
    {Script(words, 0) : words \in
       {<<"part", "host">>, <<"transport", "host">>, <<"transport", "transport", "open">>,
        <<"open">>, <<"devices">>, <<"part", "bad">>, <<"part", "part">>}}
=============================================================================
