----------------------------- MODULE CloudConfig -----------------------------
(***************************************************************************)
(* The bootstrap data of a machine as kubeadm's bootstrap provider writes  *)
(* it, and the reader of utils/cloudConfig.go, which goes by the form of   *)
(* the lines and not by their indentation.                                 *)
(***************************************************************************)
EXTENDS Naturals, Sequences, SequencesExt

(* kind is what the code tells lines apart by: the prefixes of a file's    *)
(* header, a line with "-----END", "runcmd", a command "  - ", and, among  *)
(* the lines of a file, the name of the node and lines that are empty once *)
(* indented.  short: fewer than six characters.  of: the text of the line. *)
LineKinds == {"path", "owner", "permissions", "marker", "text", "name",
              "end", "blank", "runcmd", "cmd", "other", "short"}

Line(kind, of) == [kind |-> kind, of |-> of]

(* Text() past the last line is "". *)
LineAt(lines, i) == IF i \in DOMAIN lines THEN lines[i] ELSE Line("short", "")

-----------------------------------------------------------------------------
(* A file of the data is its path, whether its owner is given, and its     *)
(* lines, which are indented: none of them is a header or "runcmd".  The   *)
(* data is its files and its commands.                                     *)
BodyKinds == {"text", "name", "end", "blank", "short"}

DataFile == [path : STRING, owned : BOOLEAN,
             body : Seq([kind : BodyKinds, of : STRING])]

BootstrapData == [files : Seq(DataFile), cmds : Seq(STRING)]

FileLines(file) ==
    <<Line("path", file.path)>>
        \o (IF file.owned THEN <<Line("owner", "")>> ELSE <<>>)
        \o <<Line("permissions", ""), Line("marker", "")>>
        \o file.body

Render(data) ==
    <<Line("other", "")>>
        \o FlattenSeq([i \in DOMAIN data.files |-> FileLines(data.files[i])])
        \o <<Line("runcmd", "")>>
        \o [i \in DOMAIN data.cmds |-> Line("cmd", data.cmds[i])]

-----------------------------------------------------------------------------
(* An owner or permissions line that is not there, a line too short for    *)
(* the indentation, and data that ends within a file index out of range.   *)
Panic == [panics |-> TRUE, files |-> <<>>, cmds |-> <<>>]

Nothing == [panics |-> FALSE, files |-> <<>>, cmds |-> <<>>]

Prepend(files, cmds, rest) ==
    IF rest.panics THEN Panic
    ELSE [panics |-> FALSE, files |-> files \o rest.files,
          cmds |-> cmds \o rest.cmds]

Headed(lines, i) == /\ LineAt(lines, i + 1).kind = "owner"
                    /\ LineAt(lines, i + 2).kind = "permissions"

(* Only these lines end the file that began at line i: the header of the   *)
(* next file does not.                                                     *)
Stops == {"end", "runcmd", "short"}

StopOf(lines, i) ==
    CHOOSE j \in (i + 4) .. (Len(lines) + 4) :
        /\ LineAt(lines, j).kind \in Stops
        /\ \A k \in (i + 4) .. (j - 1) : LineAt(lines, k).kind \notin Stops

(* Mutant of Contents: the line "runcmd" is left among the contents. *)
ContentsToStop(lines, i, j) == SubSeq(lines, i + 4, j)

Contents(lines, i, j) ==
    SubSeq(lines, i + 4, IF lines[j].kind = "runcmd" THEN j - 1 ELSE j)

(* The loop over the commands leaves after the first line. *)
FirstCommand(lines, i) == IF LineAt(lines, i).kind = "cmd"
                          THEN <<lines[i].of>> ELSE <<>>

(* FromBytes: what is read from line i on.  A "runcmd" that does not end a *)
(* file is passed over like any other line.                                *)
FromBytes(lines) ==
    LET Read[i \in 1 .. Len(lines) + 6] ==
          IF i > Len(lines) THEN Nothing
          ELSE IF lines[i].kind # "path" THEN Read[i + 1]
          ELSE IF ~Headed(lines, i) THEN Panic
          ELSE LET j == StopOf(lines, i)
                   file == [path |-> lines[i].of,
                            contents |-> Contents(lines, i, j)]
               IN  CASE LineAt(lines, j).kind = "short" -> Panic
                     [] LineAt(lines, j).kind = "end" ->
                          Prepend(<<file>>, <<>>, Read[j + 1])
                     [] OTHER ->
                          Prepend(<<file>>, FirstCommand(lines, j + 1),
                                  Read[j + 2])
    IN  Read[1]

-----------------------------------------------------------------------------
Has(file, kind) == \E i \in DOMAIN file.body : file.body[i].kind = kind

(* Data whose commands the reader reaches: every owner is given, the last  *)
(* file is not a certificate or key, and there is one command.             *)
Runnable(data) ==
    /\ data.files # <<>>
    /\ \A i \in DOMAIN data.files :
          data.files[i].owned /\ ~Has(data.files[i], "short")
    /\ ~Has(Last(data.files), "end")
    /\ Len(data.cmds) = 1

(* The lines of a file but the blank ones. *)
Solid(body) ==
    LET Kept[i \in 0 .. Len(body)] ==
          IF i = 0 THEN <<>>
          ELSE IF body[i].kind = "blank" THEN Kept[i - 1]
          ELSE Append(Kept[i - 1], body[i])
    IN  Kept[Len(body)]

OnlyLast(file, kind) ==
    \A i \in DOMAIN Solid(file.body) :
        Solid(file.body)[i].kind = kind => i = Len(Solid(file.body))

(* Data as kubeadm makes it without files of the user's: every file but    *)
(* the last is one certificate or key, and the name of the node is the     *)
(* last line of the last file, if it is there.                             *)
KubeadmShaped(data) ==
    /\ Runnable(data)
    /\ \A i \in 1 .. Len(data.files) - 1 :
          Has(data.files[i], "end") /\ OnlyLast(data.files[i], "end")
    /\ \A i \in DOMAIN data.files : OnlyLast(data.files[i], "name")

(* For data whose commands the reader reaches, it stays within every line  *)
(* and finds the command, whatever files of the user's are among the       *)
(* others; of data as kubeadm makes it, each file has the lines it was     *)
(* written with, up to blank ones.                                         *)
ReadsBack(data) ==
    LET read == FromBytes(Render(data))
    IN  /\ Runnable(data) => ~read.panics /\ read.cmds = data.cmds
        /\ KubeadmShaped(data) =>
              /\ Len(read.files) = Len(data.files)
              /\ \A i \in DOMAIN data.files :
                    /\ read.files[i].path = data.files[i].path
                    /\ Solid(read.files[i].contents)
                          = Solid(data.files[i].body)
=============================================================================
