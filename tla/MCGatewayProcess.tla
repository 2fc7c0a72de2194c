-------------------------- MODULE MCGatewayProcess --------------------------
(* Local files that are complete, or lack or misspell one thing each, and       *)
(* versions of the data ID that set it right, or break what was right.         *)
EXTENDS GatewayProcess

Routes == <<Route("/api/user", "user")>>

Complete1 ==
    "registry.address" :> <<"host:port">> @@ "gateway.routes" :> Routes
    @@ "log.level" :> Word("debug") @@ "server.http.timeout" :> 5

File(output, path) == "log.output" :> output @@ "log.file_path" :> path @@ Complete1

MCLocalConf ==
    {Complete1,
     File(Word("file"), Loose("gateway.log")),
     File(Loose("file"), Word("")),
     File(Word("stdout"), Loose("")),
     "registry.address" :> <<>> @@ Complete1,
     "registry.address" :> <<"host:port", "host">> @@ Complete1,
     "gateway.routes" :> <<Route("/api/user", "")>> @@ Complete1}

\* An edit takes the output and the routes back from versions 1 and 0.
MCEditedConf == {File(Word("stderr"), Loose("gateway.log"))}

\* Version 0 sets the routes and cors; 1 a timeout, and a log file but no path, which
\* is left to what is there; 2 is blank; 3 has lost the address and blanks the path.
MCRemoteConf ==
    0 :> ("gateway.routes" :> Routes @@ "gateway.cors" :> TRUE)
    @@ 1 :> ("gateway.routes" :> (Routes \o Routes) @@ "log.output" :> Loose("file")
             @@ "server.http.timeout" :> 30)
    @@ 2 :> <<>>
    @@ 3 :> ("registry.address" :> <<>> @@ "log.file_path" :> Loose(""))

=============================================================================
