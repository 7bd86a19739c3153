---------------------------- MODULE MCProvisioning ----------------------------
EXTENDS Provisioning

Profile(show, mermaid, math, presenter) ==
  [DefaultProfile EXCEPT !.show = show,
     !.select = [mermaid |-> mermaid, math |-> math, presenter |-> presenter]]

\* Left to ptymark; chosen programs; bundled ones; a bundle beside a built-in
\* route; and bundled ones in a profile that shows the source.
MCProfiles ==
  {DefaultProfile,
   Profile("auto", External(Bare("mermaid")), Select("preview"), External(Own("presenter"))),
   Profile("auto", Select("managed"), Select("auto"), Select("managed")),
   Profile("source", Select("managed"), Select("source"), Select("auto"))}

MCOthers == {DefaultProfile,
             Profile("auto", Select("managed"), Select("auto"), Select("managed"))}

MCFirstWorlds ==
  {[programs |-> {}, manifest |-> "absent"],
   [programs |-> {Own("mermaid"), Own("math")}, manifest |-> "absent"],
   [programs |-> {Own("mermaid"), Own("presenter")} \cup {Bundled(r) : r \in Roles}, manifest |-> "ready"]}

MCLegacy(path, presenter, cache) ==
  [mermaid |-> [backend |-> "mermaid-cli", path |-> path],
   math |-> [backend |-> "preview", path |-> Bare("math")],
   presenter |-> presenter, source |-> FALSE, cache |-> cache]

MCUserFiles ==
  {File([default |-> d, profiles |-> [n \in {"default", "other"} |->
           IF n = "default" THEN p ELSE q]]) :
     d \in {"default", "other"}, p \in MCProfiles, q \in MCOthers}
  \cup {LegacyFile(MCLegacy(path, Bundled("presenter"), cache)) :
          path \in {Own("mermaid"), Bundled("mermaid")}, cache \in {"memory", "zero"}}

MCRequests ==
  {Request(m, a, p, r) :
     m \in {Ask("keep"), Ask("auto"), Ask("preview"), AskFor(Own("mermaid")), AskFor(Bundled("mermaid"))},
     a \in {Ask("keep"), Ask("source")},
     p \in {Ask("keep"), AskFor(Bundled("presenter"))},
     r \in {FALSE}} \cup {StartOver}
=============================================================================
