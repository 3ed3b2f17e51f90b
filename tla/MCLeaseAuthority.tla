-------------------------- MODULE MCLeaseAuthority --------------------------
\* Two clock domains and the invalid one, stamps up to a lease and a half, two
\* owner epochs and two sequence numbers before each counter's maximum.  Every
\* argument is either well formed or wrong in one place; sessions, owners and
\* sequences of well-formed proposals are all combined.
EXTENDS LeaseAuthority

MCDomains == 0 .. 2
MCSessions == 0 .. 2
MCRevisions == 0 .. 2
WellIssued == [session |-> 1, catalog |-> 1, state |-> 1, field_mask |-> {1},
               participant_applied |-> TRUE]
MCIssueInputs ==
  {WellIssued, [WellIssued EXCEPT !.session = 2], [WellIssued EXCEPT !.session = 0],
   [WellIssued EXCEPT !.catalog = 0], [WellIssued EXCEPT !.state = 0],
   [WellIssued EXCEPT !.field_mask = {}], [WellIssued EXCEPT !.participant_applied = FALSE]}
WellProposed ==
  [entity : {1}, session : 1 .. 2, owner : 1 .. 2, catalog : {1}, state : {1},
   sequence : 0 .. 2, field_mask : {{1}}]
MCProposals ==
  WellProposed \cup
  {[entity |-> d.entity, session |-> 1, owner |-> 1, catalog |-> d.catalog,
    state |-> d.state, sequence |-> 1, field_mask |-> d.mask] :
     d \in {[entity |-> 2, catalog |-> 1, state |-> 1, mask |-> {1}],
            [entity |-> 1, catalog |-> 2, state |-> 1, mask |-> {1}],
            [entity |-> 1, catalog |-> 1, state |-> 2, mask |-> {1}],
            [entity |-> 1, catalog |-> 1, state |-> 1, mask |-> {}],
            [entity |-> 1, catalog |-> 1, state |-> 1, mask |-> {1, 2}]}}
=============================================================================
