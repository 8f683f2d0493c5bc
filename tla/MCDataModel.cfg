CONSTANT MaxWrites = 1
SPECIFICATION Spec
INVARIANTS ReadsBack CallsItsOwn OffersWhatItDoes DescriptionsAgree
