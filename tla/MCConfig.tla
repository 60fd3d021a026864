-------------------------------- MODULE MCConfig --------------------------------
(***************************************************************************)
(* Documents for ConfigBoot: a plain one, and each part of the format in   *)
(* turn with values that tell its fields apart.                            *)
(***************************************************************************)
EXTENDS ConfigBoot

CONSTANTS o1, o2, d1, d2

Secret(name, len) == [name |-> name, len |-> len]

PlainKey ==
  [secret |-> Secret("k", 8), digits |-> 6, decoy |-> NoIndex, display |-> <<>>,
   chain |-> <<>>, gated |-> FALSE]
TwinKey == [PlainKey EXCEPT !.secret = Secret("twin", 2), !.digits = 8]

PlainSlot ==
  [key |-> 0, action |-> "Unlock", policy |-> [kind |-> "AlwaysValid"], show_progress |-> FALSE,
   reset_on_invalid |-> TRUE, negative |-> Negative("Reset", 0),
   gates |-> [own_fence |-> NoIndex, stillness_s |-> 0, calendar |-> NoIndex],
   veto_delay_s |-> 0, veto_key |-> NoIndex, budget |-> 0]

Time(h, m) == [hour |-> h, minute |-> m]
Plain ==
  [keys |-> <<PlainKey>>, slots |-> <<PlainSlot>>, calendars |-> <<>>, confirm |-> <<>>,
   crit |-> <<>>, unlock_window_s |-> 45]

-------------------------------------------------------------------------------
Policies ==
  {[kind |-> "AlwaysValid"],
   [kind |-> "Sequence", n |-> 3, window_s |-> 600, gap_min_s |-> 30, gap_max_s |-> 90,
    delay_min_s |-> 1, delay_max_s |-> 120, pace_jitter_s |-> 10],
   [kind |-> "Path", leg_keys |-> <<0, 1>>, leg_deadline_s |-> 900, delay_max_s |-> 61],
   [kind |-> "DeadMan", beat_s |-> 65535],
   [kind |-> "Quorum", m |-> 2, keys |-> <<1, 0>>, window_s |-> 300, alternating |-> TRUE,
    gap_min_s |-> 2, gap_max_s |-> 65535],
   [kind |-> "Path", leg_keys |-> <<0, 1, 0>>, leg_deadline_s |-> 0, delay_max_s |-> 0],
   [kind |-> "Quorum", m |-> 1, keys |-> <<0, 1, 0>>, window_s |-> 0, alternating |-> FALSE,
    gap_min_s |-> 0, gap_max_s |-> 0]}

Gated ==
  {[own_fence |-> f, stillness_s |-> s, calendar |-> c] :
     f \in {NoIndex, 2}, s \in {0, 65535}, c \in {NoIndex, 1}}

SlotChoices ==
  {[PlainSlot EXCEPT !.policy = p] : p \in Policies}
  \cup {[PlainSlot EXCEPT !.gates = g, !.action = a] : g \in Gated, a \in {"Lock", "DuressUnlock"}}
  \cup {[PlainSlot EXCEPT !.negative = n, !.veto_key = v, !.veto_delay_s = 300, !.budget = 65535] :
          n \in {Negative("Silent", 0), Negative("Lockout", 0), Negative("Lockout", 65535)},
          v \in {NoIndex, 0, 1}}
  \cup {[PlainSlot EXCEPT !.show_progress = b, !.reset_on_invalid = ~b, !.key = 1] : b \in BOOLEAN}

Chains ==
  {<<[secret |-> Secret("c", 4), digits |-> 7, mode |-> m, action |-> "Unlock",
      min_elapsed_s |-> 60, max_age_s |-> 86400]>> : m \in {"Sequence", "Time", "Both"}}
Displays ==
  {<<[mode |-> m, dwell_ms |-> 500, reveal_s |-> 9, once |-> o, gap_min_s |-> 3600]>> :
     m \in {"Plain", "Scatter"}, o \in {"Unlimited", "Refuse", "Decoy"}}

KeyChoices ==
  {[PlainKey EXCEPT !.display = d, !.gated = TRUE, !.decoy = 1] : d \in Displays}
  \cup {[PlainKey EXCEPT !.chain = c, !.decoy = 7] : c \in Chains}
  \cup {[PlainKey EXCEPT !.digits = d] : d \in {3, 4, 10, 11}}
  \cup {[PlainKey EXCEPT !.secret = Secret("k", n)] : n \in {0, 9}}

Calendars ==
  {<<[days |-> d, start |-> Time(9, 0), end |-> t]>> :
     d \in {{}, {0}, {1, 3, 5}, {6, 7}}, t \in {Time(12, 0), Time(9, 0), Time(24, 0)}}
  \cup {<<[days |-> {4}, start |-> Time(1, 0), end |-> Time(0, 0)],
          [days |-> 0 .. 6, start |-> Time(0, 0), end |-> Time(1, 0)]>>}

Crits == {<<"veto">>, <<"cascade">>, <<"veto", "time-travel">>}

Scenarios ==
  {Plain}
  \cup {[Plain EXCEPT !.slots = <<PlainSlot, s>>, !.keys = <<PlainKey, TwinKey>>] : s \in SlotChoices}
  \cup {[Plain EXCEPT !.keys = <<k, TwinKey>>] : k \in KeyChoices}
  \cup {[Plain EXCEPT !.calendars = c] : c \in Calendars}
  \cup {[Plain EXCEPT !.crit = c] : c \in Crits}
  \cup {[Plain EXCEPT !.confirm = <<[secret |-> Secret("r", n), digits |-> 8, mode |-> m]>>] :
          n \in {8, 9}, m \in {"Sequence", "Both"}}
  \cup {[Plain EXCEPT !.keys = <<PlainKey, TwinKey, PlainKey>>],
        [Plain EXCEPT !.slots = <<PlainSlot, PlainSlot, PlainSlot>>],
        [Plain EXCEPT !.keys = <<>>, !.slots = <<>>]}

Edits == {"lock", "later", "zoned", "no_role", "no_type", "no_list"}

Doc(scenario, edit) == [scenario |-> scenario, edit |-> edit]

\* The first three are the ones that are sent in any order: what they say does not
\* matter there.
Documents ==
  <<Doc(Plain, "none"), Doc(Plain, "none"), Doc(Plain, "none")>>
  \o FoldSet(LAMBDA d, docs : Append(docs, d), <<>>,
             {Doc(s, "none") : s \in Scenarios} \cup {Doc(Plain, e) : e \in Edits})

Configs == DOMAIN Documents
cBig == 3

Sealed(owner, seq, config) == seal_write(sign1_write(config, owner, owner), d1, seq)

\* Two versions of one owner, a version too long to store, and one of a second
\* owner.
FewBlobs == {Sealed(o1, 1, 1), Sealed(o1, 2, 2), Sealed(o1, 3, cBig), Sealed(o2, 2, 1)}

\* One sealed for another device, renumbered, with another payload inside or outside its
\* seal, without a key id, or with a key id that did not sign.
Spoilt ==
  {seal_write(sign1_write(1, o1, o1), d2, 1),
   [Sealed(o1, 1, 1) EXCEPT !.seq = 2],
   [Sealed(o1, 1, 1) EXCEPT !.config = 2],
   seal_write([sign1_write(1, o1, o1) EXCEPT !.config = 2], d1, 1),
   seal_write(sign1_write(1, NoOwner, o1), d1, 1),
   seal_write(sign1_write(1, o1, o2), d1, 1)}

\* Either the few, in every order, with every fault; or one blob with one of the other
\* documents, or one that is spoilt.
EachAlone ==
  {{Sealed(o1, 1, c)} : c \in 4 .. Len(Documents)} \cup {{b} : b \in Spoilt}
AllBlobs == FewBlobs \cup UNION EachAlone
FewOrOne == {FewBlobs} \cup EachAlone
OnlyFew == {FewBlobs}

\* A console's document for a cascade, which names the feature as critical.
Lacking ==
  {{Sealed(o1, 1, c)} : c \in {x \in 4 .. Len(Documents) :
                                 Documents[x].scenario.crit = <<"cascade">>}}

\* A blob that is alone is sent as the protocol has it and stored once; power may
\* still go at any moment.
Undisturbed ==
  held # FewBlobs =>
    /\ job'.kind # "wifi"
    /\ xfer' # NoXfer => /\ xfer'.seq_hint = xfer'.blob.seq
                         /\ generation' = 0
                         /\ \A k \in 1 .. NChunks : k > xfer'.filled => cfg_buf'[k] = NoBlob
    /\ stage = "idle" \/ stage' # "idle" \/ ~On' \/ flash' # flash

MCSpec == BInit /\ [][BNext /\ Undisturbed]_bvars
===============================================================================
