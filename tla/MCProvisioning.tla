--------------------------- MODULE MCProvisioning ---------------------------
(* A small instance of the provisioning of a node for TLC: two machines    *)
(* with any of five pieces of bootstrap data.                              *)
EXTENDS Provisioning

CONSTANTS a, b

Text(of) == Line("text", of)

Certificate(path) ==
    [path |-> path, owned |-> TRUE,
     body |-> <<Text("cert"), Line("end", ""), Line("blank", "")>>]

Config(path) ==
    [path |-> path, owned |-> TRUE,
     body |-> <<Text("yaml"), Line("blank", ""), Line("name", "")>>]

(* A file of the user's, which no "-----END" ends. *)
UserFile == [path |-> "user", owned |-> TRUE, body |-> <<Text("conf")>>]

Bootstrap(written) == [files |-> written, cmds |-> <<"kubeadm">>]

MCDataSet ==
    {Bootstrap(<<Config("join.yaml")>>),
     Bootstrap(<<Certificate("ca.crt"), Config("join.yaml")>>),
     Bootstrap(<<Certificate("ca.crt"), Config("kubeadm.yaml")>>),
     Bootstrap(<<Certificate("ca.crt"), Certificate("ca.key"),
                 Config("kubeadm.yaml")>>),
     Bootstrap(<<UserFile, Certificate("ca.crt"), Config("kubeadm.yaml")>>)}

(* All data of up to three files of up to two lines each. *)
Bodies == UNION {[1 .. n -> {Text("text"), Line("name", ""), Line("end", ""),
                             Line("blank", "")}] : n \in 0 .. 2}

AnyFile(path) == {[path |-> path, owned |-> TRUE, body |-> body] :
                    body \in Bodies}

MCSamples ==
    {Bootstrap(written) : written \in
        {<<file>> : file \in AnyFile("x")}
            \cup AnyFile("x") \X AnyFile("y")
            \cup AnyFile("x") \X AnyFile("y") \X AnyFile("z")}
=============================================================================
