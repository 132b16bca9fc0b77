--------------------------- MODULE SystemPackages ---------------------------
(* The catalogers of operating system package databases (catalogers/os_pkgs.py,
   catalogers/os_rpm.py).  The package manager works on its database, and may be
   interrupted at any of its steps; a scan reads what is on disk then. *)
EXTENDS Findings

CONSTANT Installable
ASSUME InstallableAreVersions ==
    IsFiniteSet(Installable) /\ \A p \in Installable : p = <<p[1], p[2]>> /\ p[2] \in Version

VARIABLES
    db,       \* the format of the database
    named,    \* etc/os-release is there and names the distribution
    status,   \* package |-> how far its installation came
    asks,     \* package |-> what its entry requires
    stored,   \* the headers in the main file (sqlite), in some blob (ndb)
    logged,   \* sqlite: there is a write-ahead log, and it is not empty
    damaged   \* rpm: package |-> what its header has lost
osVars == <<db, named, status, asks, stored, logged, damaged>>

Rpm == {"sqlite", "ndb", "bdb"}
OneVersionOnly == {"dpkg", "apk", "pacman"}
TellNoNeeds == {"portage", "homebrew"}
DatabaseFormats == Rpm \cup OneVersionOnly \cup TellNoNeeds

WithStatus(states) == {p \in DOMAIN status : status[p] \in states}
Installed == WithStatus({"installed"})

\* What an entry may ask for: a package by its name, one of two, what some
\* package provides, or the absence of some version.
Forms == CASE db = "dpkg" -> {"name", "either"}
           [] db = "apk" -> {"name", "provided", "refuses"}
           [] OTHER -> {"name", "provided"}
AsksOf(p) ==
    {{}} \cup {{[form |-> f, name |-> q[1], ver |-> q[2]]} : f \in Forms, q \in {r \in Installable : r[1] # p[1]}}
Meets(ask, held) ==
    CASE ask.form = "name" -> \E q \in held : q[1] = ask.name
      [] ask.form = "refuses" -> <<ask.name, ask.ver>> \notin held
      [] OTHER -> TRUE
AllMet(held) == \A p \in held : \A ask \in asks'[p] : Meets(ask, held)
----------------------------------------------------------------------------
(* The package manager *)

OsInit ==
    /\ db \in DatabaseFormats /\ named \in BOOLEAN
    /\ status = [p \in {} |-> ""] /\ damaged = [p \in {} |-> ""]
    /\ asks = [p \in Installable |-> {}]
    /\ stored = {} /\ logged = FALSE

With(f, p, value) == [q \in DOMAIN f \cup {p} |-> IF q = p THEN value ELSE f[q]]
Without(f, ps) == [q \in DOMAIN f \ ps |-> f[q]]
Replaced(p) == {q \in DOMAIN status : q[1] = p[1] /\ db \in OneVersionOnly}

\* dpkg unpacks before it configures; ndb stores the blob before its slot; what
\* sqlite is given goes to its log first.
Install(p) ==
    /\ p \notin WithStatus({"installed", "unpacked", "blob"})
    /\ asks' \in {[asks EXCEPT ![p] = wanted] : wanted \in AsksOf(p)}
    /\ status' = With(Without(status, Replaced(p)), p,
                      CASE db = "dpkg" -> "unpacked" [] db = "ndb" -> "blob" [] OTHER -> "installed")
    /\ AllMet(DOMAIN status')
    /\ stored' = IF db = "sqlite" THEN stored ELSE stored \cup {p}
    /\ logged' = (db = "sqlite")
    /\ UNCHANGED <<db, named, damaged>>

\* dpkg configures, or has a trigger to wait for; ndb adds the slot.
Configure(p) ==
    /\ p \in WithStatus({"unpacked", "blob"})
    /\ \E outcome \in {"installed"} \cup (IF db = "dpkg" THEN {"triggers-pending"} ELSE {}) :
         status' = [status EXCEPT ![p] = outcome]
    /\ UNCHANGED <<db, named, asks, stored, logged, damaged>>

\* dpkg leaves the entry of what it removes, half installed when interrupted;
\* ndb clears the slot, and then the blob.
Uninstall(p) ==
    /\ p \in Installed
    /\ \E left \in IF db = "dpkg" THEN {"half-installed", "config-files"} ELSE {"gone"} :
         status' = IF left = "gone" THEN Without(status, {p}) ELSE [status EXCEPT ![p] = left]
    /\ asks' = IF db = "sqlite" THEN asks ELSE [asks EXCEPT ![p] = {}]
    /\ AllMet({q \in DOMAIN status' : status'[q] # "config-files"})
    /\ stored' \in IF db = "ndb" THEN {stored, stored \ {p}} ELSE IF db = "sqlite" THEN {stored} ELSE {stored \ {p}}
    /\ logged' = (db = "sqlite")
    /\ UNCHANGED <<db, named, damaged>>

\* sqlite writes its log back, and may leave the file its length.
Checkpoint ==
    /\ logged
    /\ stored' = Installed /\ logged' \in BOOLEAN
    /\ UNCHANGED <<db, named, status, asks, damaged>>

\* A header loses its index, its name or its epoch.
Damage(p) ==
    /\ db \in Rpm /\ p \in Installed \cap stored
    /\ \E lost \in {"index", "name", "epoch"} : damaged' = With(damaged, p, lost)
    /\ UNCHANGED <<db, named, status, asks, stored, logged>>

OsNext ==
    \/ /\ DOMAIN damaged = {}
       /\ \E p \in Installable : Install(p) \/ Configure(p) \/ Uninstall(p) \/ Damage(p)
    \/ Checkpoint

OsSpec == OsInit /\ [][OsNext]_osVars
----------------------------------------------------------------------------
(* The catalogers *)

Ecosystem == CASE db \in Rpm -> "rpm" [] db = "dpkg" -> "deb" [] db = "apk" -> "apk" [] db = "pacman" -> "alpm"
               [] db = "portage" -> "ebuild" [] OTHER -> "brew"
\* _os_release_id, or what the cataloger calls the distribution itself
Distro == CASE db = "pacman" -> "arch" [] db = "portage" -> "category" [] db = "homebrew" -> None
            [] OTHER -> IF named THEN "distribution" ELSE Ecosystem
SystemFamily(name) == Family(Ecosystem, Distro, name)
SystemPackage(p) == <<SystemFamily(p[1]), p[2]>>

\* A name, and the first of two, is an edge; apk's refusal is read as a need.
AskedName(ask) == IF ask.form = "provided" THEN {} ELSE {ask.name}
\* PortageCataloger and HomebrewCataloger report no edges.
SystemFinding(p) ==
    Found({Claim(SystemPackage(p), Tier.INSTALLED, {})},
          {Edge(RefPurl(SystemPackage(p)), RefFamily(SystemFamily(n)), "runtime", FALSE)
             : n \in IF db \in TellNoNeeds THEN {} ELSE UNION {AskedName(ask) : ask \in asks[p]}})

\* DpkgCataloger: "installed" is somewhere in the Status.
DpkgRows == WithStatus({"installed", "half-installed"})
PackageRows == Installed
SqliteHeaders == stored
\* Mutant: the blobs are read without their slots.
EveryBlob == stored
\* A slot, and at its place the blob of the same package.
NdbHeaders == Installed \cap stored
\* Hash pages, and the chain of overflow pages of what does not fit one.
BdbHeaders == Installed

Headers == CASE db = "sqlite" -> SqliteHeaders [] db = "ndb" -> NdbHeaders [] OTHER -> BdbHeaders
\* parse_header_blob and _read_value: what has no index raises DetectorFailure, a
\* name that is not in the data is left out, and a number that is not raises
\* struct.error, which ends the parse.
NoHeader == {p \in DOMAIN damaged : damaged[p] = "index"}
Nameless == {p \in DOMAIN damaged : damaged[p] = "name"}
ParseFails == \E p \in DOMAIN damaged \cap Headers : damaged[p] = "epoch"
RpmRows == IF ParseFails THEN {} ELSE Headers \ (NoHeader \cup Nameless)

\* SORB-W016: a non-empty write-ahead log beside the database
Warned == db = "sqlite" /\ logged

Rows == CASE db = "dpkg" -> DpkgRows [] db \in Rpm -> RpmRows [] OTHER -> PackageRows
SystemReport ==
    Found(UNION {SystemFinding(p).claims : p \in Rows}, UNION {SystemFinding(p).edges : p \in Rows})
----------------------------------------------------------------------------
(* Properties *)

Reported == Components(SystemReport.claims)
Present == WithStatus({"installed", "half-installed"})

\* An interrupted removal, an unfinished installation, a log that was not written
\* back and a header that cannot be read: without a warning and a failure, what is
\* installed with a sound entry is reported, and nothing that is gone; a package
\* that cannot be read takes no other with it, but for a number cut short.
RowsAreReadBack ==
    (~Warned /\ ~(db \in Rpm /\ ParseFails)) =>
        /\ {SystemPackage(p) : p \in Installed \ DOMAIN damaged} \subseteq Reported
        /\ Reported \subseteq {SystemPackage(p) : p \in Present}

\* An edge is between two packages of which the one asks for the other's name, and
\* every requirement by name that a reported package meets is an edge.
NeedsAreReadBack ==
    LET graph == Graph(SystemReport)
        asked(p, q) == {ask.form : ask \in {a \in asks[p] : a.name = q[1]}}
        shown == {pq \in Rows \X Rows :
                    \E e \in graph : e[1] = SystemPackage(pq[1]) /\ e[2] = SystemPackage(pq[2])}
    IN  /\ \A e \in graph : e[1] \in Reported /\ e[2] \in Reported
        /\ \A pq \in shown : asked(pq[1], pq[2]) \ {"provided"} # {}
        /\ db \notin TellNoNeeds =>
             \A p \in Rows : \A ask \in asks[p] :
                ask.form = "name" /\ (\E q \in Rows : q[1] = ask.name)
                  => \E q \in Rows : q[1] = ask.name /\ <<p, q>> \in shown

\* What the scan says of a package database, found at any moment of the package
\* manager's work, is what the database says.
DatabaseIsReadBack == RowsAreReadBack /\ NeedsAreReadBack
=============================================================================
