------------------------------ MODULE Console ------------------------------
(***************************************************************************)
(* The console of a virtual machine: a terminal in the page, a WebSocket,  *)
(* and on the server a handler that copies what the SSH session prints,    *)
(* beside a goroutine that copies what the user types.  The handlers of a  *)
(* socket write to the terminal there is when they run, whichever it is.   *)
(***************************************************************************)
EXTENDS Naturals

CONSTANT ConOpens \* bound on the consoles opened
ASSUME ConsoleAssumption == ConOpens \in Nat

Sockets == 1..ConOpens

VARIABLES
  con,     \* the page: currentWs, currentTerminal and what it shows, see ConInit
  sockets, \* each WebSocket with what serves it
  opened   \* consoles opened so far
conVars == <<con, sockets, opened>>

NoSocket == 0
Page(ws, term, screen) == [ws |-> ws, term |-> term, screen |-> screen, files |-> {}]
\* client: the browser's end.  handler: where TerminalHandler is.  reader: the
\* goroutine beside it.  printed: output the handler has not read.  typed, mail:
\* messages on their way.  grace: a write that still succeeds without a reader.
Socket(client, handler) == [client |-> client, handler |-> handler, reader |-> FALSE, printed |-> FALSE,
                            typed |-> FALSE, mail |-> {}, grace |-> FALSE]
ConInit == /\ con = Page(NoSocket, NoSocket, {}) /\ opened = 0
           /\ sockets = [n \in Sockets |-> Socket("none", "none")]

\* What a handler writes to the browser.
Texts == {"output", "failed", "ended"}

Running(n) == sockets[n].handler = "running"
Live(n)    == sockets[n].client \in {"connecting", "open"}
Left(n)    == sockets[n].client \in {"closing", "closed"}

\* WebSocket.close: messages are not delivered from then on.  One that was not
\* open yet is cut without a closing message.
Close(n) == IF n = NoSocket \/ ~Live(n) THEN sockets
            ELSE [sockets EXCEPT ![n].client = "closing", ![n].mail = {},
                                 ![n].grace = sockets[n].client = "connecting"]
Written(text, n) == IF con.term = NoSocket THEN con ELSE [con EXCEPT !.screen = @ \cup {<<text, n>>}]

----------------------------------------------------------------------------
(* The page *)

OpenTerminal ==
  /\ opened < ConOpens /\ opened' = opened + 1
  /\ con' = [Page(opened', opened', {}) EXCEPT !.files = con.files]
  /\ sockets' = [Close(con.ws) EXCEPT ![opened'] = Socket("connecting", "upgrade")]
CloseTerminalModal ==
  /\ con.term # NoSocket
  /\ con' = [Page(NoSocket, NoSocket, {}) EXCEPT !.files = con.files]
  /\ sockets' = Close(con.ws) /\ UNCHANGED opened
\* Loading the page anew leaves the sockets and the files being read.
LeavePage == /\ con.term # NoSocket
              /\ con' = Page(NoSocket, NoSocket, {}) /\ sockets' = Close(con.ws) /\ UNCHANGED opened
OnData == /\ con.ws # NoSocket /\ sockets[con.ws].client = "open"
          /\ sockets' = [sockets EXCEPT ![con.ws].typed = TRUE] /\ UNCHANGED <<con, opened>>

OnOpen(n) == /\ sockets[n].client = "connecting" /\ sockets[n].handler \notin {"none", "upgrade"}
             /\ sockets' = [sockets EXCEPT ![n].client = "open"]
             /\ con' = Written("connected", n) /\ UNCHANGED opened
\* Text is written at once, output when its file has been read.
OnMessage(n, what) ==
  /\ sockets[n].client = "open" /\ what \in sockets[n].mail
  /\ sockets' = [sockets EXCEPT ![n].mail = @ \ {what}]
  /\ con' = IF what = "output" THEN [con EXCEPT !.files = @ \cup {n}] ELSE Written(what, n)
  /\ UNCHANGED opened
FileRead(n) == /\ n \in con.files
               /\ con' = [Written("output", n) EXCEPT !.files = @ \ {n}] /\ UNCHANGED <<sockets, opened>>
OnClose(n) == /\ \/ sockets[n].client = "closing"
                 \/ sockets[n].client = "open" /\ sockets[n].handler = "ended" /\ sockets[n].mail = {}
              /\ sockets' = [sockets EXCEPT ![n].client = "closed"]
              /\ con' = Written("disconnected", n) /\ UNCHANGED opened

----------------------------------------------------------------------------
(* The server *)

\* A message to a browser that does not listen is lost.
Mailed(s, what) == IF s.client \in {"connecting", "open"} THEN [s EXCEPT !.mail = @ \cup {what}] ELSE s
Serves(n, s)  == sockets' = [sockets EXCEPT ![n] = s] /\ UNCHANGED <<con, opened>>
Ended(s)      == [s EXCEPT !.handler = "ended", !.printed = FALSE]

\* The request of a socket that was closed meanwhile may not be upgraded.
Upgrade(n) == /\ sockets[n].handler = "upgrade"
              /\ \/ Serves(n, [sockets[n] EXCEPT !.handler = "connect"])
                 \/ sockets[n].client # "connecting" /\ Serves(n, Ended(sockets[n]))
\* Credentials, SSH connection, session and command: any of them may fail.
Connect(n) == /\ sockets[n].handler = "connect"
              /\ \/ Serves(n, [sockets[n] EXCEPT !.handler = "running", !.reader = TRUE])
                 \/ Serves(n, Ended(Mailed(sockets[n], "failed")))
\* What is typed is echoed by the machine's terminal.
ReadMessage(n) == /\ sockets[n].reader /\ sockets[n].typed
                  /\ Serves(n, [sockets[n] EXCEPT !.typed = FALSE, !.printed = @ \/ Running(n)])
\* The end of the connection ends the reader, and nobody else.
ReaderEnds(n) == /\ sockets[n].reader
                 /\ \/ Left(n) /\ ~sockets[n].typed
                    \/ sockets[n].handler = "ended"
                 /\ Serves(n, [sockets[n] EXCEPT !.reader = FALSE, !.typed = FALSE])

\* Mutated: an output that could not be written is passed over.
CopyOutputOn(n) == /\ Running(n) /\ sockets[n].printed
                   /\ Serves(n, Mailed([sockets[n] EXCEPT !.printed = FALSE, !.grace = @ /\ sockets[n].reader], "output"))
\* A write fails once the reader has met the end of the connection, or, when it
\* was cut without a closing message, the one after.
CopyOutput(n) ==
  LET s == sockets[n] IN
  /\ Running(n) /\ s.printed
  /\ Serves(n, IF s.reader \/ s.grace
               THEN Mailed([s EXCEPT !.printed = FALSE, !.grace = @ /\ s.reader], "output")
               ELSE Ended(s))
\* The machine's side: it prints when it likes, and its console may end.
Prints(n)       == Running(n) /\ ~sockets[n].printed /\ Serves(n, [sockets[n] EXCEPT !.printed = TRUE])
ConsoleExits(n) == Running(n) /\ ~sockets[n].printed /\ Serves(n, Ended(Mailed(sockets[n], "ended")))

----------------------------------------------------------------------------
Browser(n) == OnOpen(n) \/ (\E what \in Texts : OnMessage(n, what)) \/ FileRead(n) \/ OnClose(n)
Handler(n) == Upgrade(n) \/ Connect(n) \/ CopyOutput(n)
Reader(n)  == ReadMessage(n) \/ ReaderEnds(n)

ConNext == \/ OpenTerminal \/ CloseTerminalModal \/ LeavePage \/ OnData
           \/ \E n \in Sockets : Browser(n) \/ Handler(n) \/ Reader(n) \/ Prints(n) \/ ConsoleExits(n)

\* The browser's events fire, both goroutines run, the SSH connection answers or
\* times out.  Nothing is assumed of what the machine prints.
ConFairness == \A n \in Sockets : WF_conVars(Browser(n)) /\ WF_conVars(Handler(n)) /\ WF_conVars(Reader(n))
ConSpec == ConInit /\ [][ConNext]_conVars /\ ConFairness

----------------------------------------------------------------------------
(* Properties *)

\* Every variable has its type; only the current socket is open, output waits
\* only for a running handler, and only an upgraded socket gets messages.
ConsoleTypeOK ==
  /\ con = [ws |-> con.ws, term |-> con.term, screen |-> con.screen, files |-> con.files]
  /\ opened \in 0..ConOpens /\ con.ws \in {NoSocket, opened} /\ con.term = con.ws /\ con.files \subseteq 1..opened
  /\ con.screen \subseteq (Texts \cup {"connected", "disconnected"}) \X (1..opened)
  /\ sockets \in [Sockets -> [client : {"none", "connecting", "open", "closing", "closed"},
                              handler : {"none", "upgrade", "connect", "running", "ended"},
                              reader : BOOLEAN, printed : BOOLEAN, typed : BOOLEAN, grace : BOOLEAN,
                              mail : SUBSET Texts]]
  /\ \A n \in Sockets : /\ Live(n) => n = con.ws
                        /\ sockets[n].printed => Running(n)
                        /\ sockets[n].mail # {} => Live(n)

\* No session prints for ever to a browser that has left: closing, replacing or
\* reloading the console at any point of the handler ends the session once it has
\* printed, although only the goroutine beside the handler notices.
SessionsEnd == \A n \in Sockets : <>[](Left(n) => ~sockets[n].printed)
=============================================================================
