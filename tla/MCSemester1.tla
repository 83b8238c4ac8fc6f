----------------------------- MODULE MCSemester1 -----------------------------
(***************************************************************************)
(* The programs of the first semester, model-checked together: task says     *)
(* which one runs, and the state of the other stands still.                  *)
(***************************************************************************)
EXTENDS UdpEcho, ReverseTree

VARIABLE task

allVars == <<task, treeVars, echoVars>>

\* The characters are numbers, 0 the dot.  The folders "12", with a file and a
\* folder of one file, "123", with neither a file nor a folder, and "3/21".
Here == <<0>>
There == <<3>>
Dir == [type |-> "dir", data |-> <<>>]
Reg(data) == [type |-> "reg", data |-> data]
Tree == {<<<<Here, <<1, 2>>>>, Dir>>,
         <<<<Here, <<1, 2>>, <<1, 2>>>>, Reg(<<1, 2>>)>>,
         <<<<Here, <<1, 2>>, <<2, 3, 1>>>>, Dir>>,
         <<<<Here, <<1, 2>>, <<2, 3, 1>>, <<3, 1>>>>, Reg(<<2, 1, 1, 2, 1>>)>>,
         <<<<Here, <<1, 2, 3>>>>, Dir>>,
         <<<<Here, <<1, 2, 3>>, <<1>>>>, [type |-> "other", data |-> <<>>]>>,
         <<<<There, <<2, 1>>>>, Dir>>,
         <<<<There, <<2, 1>>, <<1, 3>>>>, Reg(<<>>)>>}
Disk == [p \in {x[1] : x \in Tree} |-> (CHOOSE x \in Tree : x[1] = p)[2]]
Arg(dir, name) == [dir |-> dir, name |-> name]
CommandLines == {<<Arg(Here, <<1, 2>>)>>,
                 <<Arg(There, <<2, 1>>), Arg(Here, <<1, 2>>)>>,
                 <<Arg(Here, <<1, 2, 3>>), Arg(There, <<2, 1>>)>>,
                 <<Arg(Here, <<1, 1>>), Arg(Here, <<3, 2>>)>>}

ADisk == {Disk}
Nines == <<9, 9, 9>>

SInit ==
    /\ TreeInit /\ EchoInit
    /\ \/ task = "tree" /\ line = [c \in Clients |-> ""] /\ client_addr = CHOOSE c \in Clients : TRUE
       \/ /\ task = "echo" /\ fresh /\ args = <<Arg(Here, <<1, 2>>)>>

TreeStep == task = "tree" /\ TreeNext /\ UNCHANGED <<task, echoVars>>
EchoStep(A) == task = "echo" /\ A /\ UNCHANGED <<task, treeVars>>
EchoServer == EchoStep(ServerStep)
EchoKill == EchoStep(Kill)
EchoHung == EchoStep(Hung)
EchoWaits(c) == EchoStep(Response(c))
EchoClient(c) == EchoStep(ClientStep(c))

SNext == TreeStep \/ EchoServer \/ EchoKill \/ EchoHung \/ \E c \in Clients : EchoClient(c)

\* The scheduler runs the server and a client whose answer has come; nobody has
\* to type another line.
SSpec ==
    /\ SInit /\ [][SNext]_allVars
    /\ WF_allVars(EchoServer) /\ \A c \in Clients : WF_allVars(EchoWaits(c))
=============================================================================
